---- MODULE Spec2Model ----
(***************************************************************************)
(* A model of the EveryAlt Chrome extension: the image normalizers of the  *)
(* service worker (src/lib/utils.js) and of the content script             *)
(* (src/content-script.js), the captioning client (lib/openai-api.js), the *)
(* dispatch pipelines of the service worker (src/service-worker.js) and    *)
(* the generation log kept in chrome.storage.local (src/lib/utils.js).     *)
(*                                                                         *)
(* Messages of Error objects are sequences of text parts, so that "the     *)
(* message contains X" is membership and '' is the empty sequence.         *)
(***************************************************************************)
EXTENDS Integers, Sequences, FiniteSets, TLC

(***************************************************************************)
(* IEEE-754 double arithmetic, as far as the program uses it: quotients of *)
(* integers, products, sums, Math.round and Number.prototype.toFixed.  A   *)
(* natural number is a sequence of 13-bit limbs, least significant first,  *)
(* without leading zero limbs; a double is [m, e] and stands for m * 2^e,  *)
(* m a natural number of exactly 53 bits, or <<>> for 0.                   *)
(***************************************************************************)
LimbBits == 13

RECURSIVE Pow2(_)
Pow2(n) == IF n = 0 THEN 1 ELSE 2 * Pow2(n - 1)

Limb == Pow2(LimbBits)

RECURSIVE BitLen(_)
BitLen(n) == IF n = 0 THEN 0 ELSE 1 + BitLen(n \div 2)

Max(a, b) == IF a >= b THEN a ELSE b
Min(a, b) == IF a <= b THEN a ELSE b

MantissaBits == 53

RECURSIVE BigNorm(_)
BigNorm(x) ==
  IF x # <<>> /\ x[Len(x)] = 0 THEN BigNorm(SubSeq(x, 1, Len(x) - 1)) ELSE x

RECURSIVE BigOfInt(_)
BigOfInt(n) == IF n = 0 THEN <<>> ELSE <<n % Limb>> \o BigOfInt(n \div Limb)

RECURSIVE BigToInt(_)
BigToInt(x) == IF x = <<>> THEN 0 ELSE Head(x) + Limb * BigToInt(Tail(x))

RECURSIVE BigAddC(_, _, _)
BigAddC(x, y, carry) ==
  IF x = <<>> /\ y = <<>> THEN (IF carry = 0 THEN <<>> ELSE <<carry>>)
  ELSE LET a == IF x = <<>> THEN 0 ELSE Head(x)
           b == IF y = <<>> THEN 0 ELSE Head(y)
           t == a + b + carry
       IN <<t % Limb>> \o BigAddC(IF x = <<>> THEN x ELSE Tail(x),
                                  IF y = <<>> THEN y ELSE Tail(y), t \div Limb)

BigAdd(x, y) == BigAddC(x, y, 0)

RECURSIVE BigSubB(_, _, _)
\* x - y - borrow, for x >= y + borrow
BigSubB(x, y, borrow) ==
  IF x = <<>> THEN <<>>
  ELSE LET b == (IF y = <<>> THEN 0 ELSE Head(y)) + borrow
           t == Head(x) - b
       IN <<IF t < 0 THEN t + Limb ELSE t>>
          \o BigSubB(Tail(x), IF y = <<>> THEN y ELSE Tail(y), IF t < 0 THEN 1 ELSE 0)

RECURSIVE BigLess(_, _)
BigLess(x, y) ==
  IF Len(x) # Len(y) THEN Len(x) < Len(y)
  ELSE IF x = <<>> THEN FALSE
  ELSE IF x[Len(x)] # y[Len(y)] THEN x[Len(x)] < y[Len(y)]
  ELSE BigLess(BigNorm(SubSeq(x, 1, Len(x) - 1)), BigNorm(SubSeq(y, 1, Len(y) - 1)))

\* |x - y|
BigDiff(x, y) == IF BigLess(x, y) THEN BigNorm(BigSubB(y, x, 0)) ELSE BigNorm(BigSubB(x, y, 0))

RECURSIVE BigMulSmall(_, _, _)
\* x * h + carry, for h < 2^18
BigMulSmall(x, h, carry) ==
  IF x = <<>> THEN BigOfInt(carry)
  ELSE LET t == Head(x) * h + carry
       IN <<t % Limb>> \o BigMulSmall(Tail(x), h, t \div Limb)

RECURSIVE BigMul(_, _)
BigMul(x, y) ==
  IF y = <<>> \/ x = <<>> THEN <<>>
  ELSE BigNorm(BigAdd(BigMulSmall(x, Head(y), 0), <<0>> \o BigMul(x, Tail(y))))

\* [q, r] with x = q * d + r, for d < 2^18
RECURSIVE BigDivMod(_, _)
BigDivMod(x, d) ==
  IF x = <<>> THEN [q |-> <<>>, r |-> 0]
  ELSE LET hi == BigDivMod(Tail(x), d)
           t  == hi.r * Limb + Head(x)
       IN [q |-> BigNorm(<<t \div d>> \o hi.q), r |-> t % d]

\* x * 2^k
BigShl(x, k) ==
  IF x = <<>> THEN x
  ELSE [i \in 1..(k \div LimbBits) |-> 0] \o BigNorm(BigMulSmall(x, Pow2(k % LimbBits), 0))

\* x \div 2^k
BigShr(x, k) ==
  IF Len(x) <= k \div LimbBits THEN <<>>
  ELSE BigDivMod(SubSeq(x, k \div LimbBits + 1, Len(x)), Pow2(k % LimbBits)).q

\* bit k of x (bit 0 the least significant)
BigBit(x, k) ==
  IF Len(x) <= k \div LimbBits THEN 0
  ELSE (x[k \div LimbBits + 1] \div Pow2(k % LimbBits)) % 2

\* x % 2^k # 0
BigLowBits(x, k) ==
  \/ \E i \in 1..Min(Len(x), k \div LimbBits) : x[i] # 0
  \/ Len(x) > k \div LimbBits /\ x[k \div LimbBits + 1] % Pow2(k % LimbBits) # 0

BigBitLen(x) == IF x = <<>> THEN 0 ELSE LimbBits * (Len(x) - 1) + BitLen(x[Len(x)])

Zero == [m |-> <<>>, e |-> 0]

\* m * 2^e with m brought back to 53 bits when rounding up carried into a
\* 54th
Renormalised(m, e) ==
  IF BigBitLen(m) > MantissaBits THEN [m |-> BigShr(m, 1), e |-> e + 1]
  ELSE [m |-> m, e |-> e]

\* q * 2^e rounded on the bits dropped below q: half is the first of them,
\* more says that another one is set; ties go to the even mantissa
RoundHalfEven(q, half, more, e) ==
  Renormalised(IF half = 1 /\ (more \/ BigBit(q, 0) = 1) THEN BigAdd(q, <<1>>) ELSE q, e)

\* x * 2^e with the lowest drop bits of x rounded away (drop <= 0: none)
RoundBits(x, drop, e, sticky) ==
  IF drop <= 0 THEN [m |-> BigShl(x, -drop), e |-> e + drop]
  ELSE RoundHalfEven(BigShr(x, drop), BigBit(x, drop - 1),
                     sticky \/ BigLowBits(x, drop - 1), e + drop)

\* the double nearest to x * 2^e (ties to even); sticky says that the value
\* is a little more than x * 2^e (x then has more than 54 bits)
RoundBig(x, e, sticky) ==
  IF x = <<>> THEN Zero ELSE RoundBits(x, BigBitLen(x) - MantissaBits, e, sticky)

RECURSIVE DivideAll(_, _)
\* x divided by each of ds in turn: the quotient, and whether it is exact
DivideAll(x, ds) ==
  IF ds = <<>> THEN [q |-> x, exact |-> TRUE]
  ELSE LET d    == BigDivMod(x, Head(ds))
           rest == DivideAll(d.q, Tail(ds))
       IN [q |-> rest.q, exact |-> d.r = 0 /\ rest.exact]

GuardBits == 6 * LimbBits

\* the double nearest to a / (ds[1] * ... * ds[n] * 2^s), for an integer
\* a >= 0 and odd divisors below 2^18 whose product is below 2^24
DblQuot(a, ds, s) ==
  LET d == DivideAll(BigShl(BigOfInt(a), GuardBits), ds)
  IN RoundBig(d.q, -GuardBits - s, ~d.exact)

DblMul(x, y) == RoundBig(BigMul(x.m, y.m), x.e + y.e, FALSE)

DblAdd(x, y) ==
  IF x.m = <<>> THEN y
  ELSE IF y.m = <<>> THEN x
  ELSE LET e == Min(x.e, y.e)
       IN RoundBig(BigAdd(BigShl(x.m, x.e - e), BigShl(y.m, y.e - e)), e, FALSE)

\* the distance of two doubles in units of the last place of the finer one
DblDistance(x, y) ==
  LET e == Min(x.e, y.e)
  IN BigDiff(BigShl(x.m, x.e - e), BigShl(y.m, y.e - e))

RECURSIVE OddPart(_)
OddPart(n) == IF n % 2 = 0 THEN OddPart(n \div 2) ELSE n

RECURSIVE TwosPart(_)
TwosPart(n) == IF n % 2 = 0 THEN 1 + TwosPart(n \div 2) ELSE 0

\* the double nearest to a / b, for integers a >= 0 and 1 <= b < 2^18
DblDiv(a, b) == DblQuot(a, <<OddPart(b)>>, TwosPart(b))

DblOfInt(n) == RoundBig(BigOfInt(n), 0, FALSE)

\* Math.round of a double x >= 0 below 2^31: the integer nearest to x, the
\* larger one of two
MathRound(x) ==
  IF x.e >= 0 THEN BigToInt(BigShl(x.m, x.e))
  ELSE BigToInt(BigShr(x.m, -x.e)) + BigBit(x.m, -x.e - 1)

MAX_DIMENSION == 300

\* ScaledDims with the height forgotten in the test
ScaledDimsWidthOnly(width, height) ==
  IF width > MAX_DIMENSION
  THEN LET scale == DblDiv(MAX_DIMENSION, Max(width, height))
       IN [w |-> MathRound(DblMul(DblOfInt(width), scale)),
           h |-> MathRound(DblMul(DblOfInt(height), scale))]
  ELSE [w |-> width, h |-> height]

\* the canvas size both normalizers compute from the bitmap's size
ScaledDims(width, height) ==
  IF width > MAX_DIMENSION \/ height > MAX_DIMENSION
  THEN LET scale == DblDiv(MAX_DIMENSION, Max(width, height))
       IN [w |-> MathRound(DblMul(DblOfInt(width), scale)),
           h |-> MathRound(DblMul(DblOfInt(height), scale))]
  ELSE [w |-> width, h |-> height]

(***************************************************************************)
(* Image sources.  A source is what the two fetches and the decoder see:   *)
(*   url       the locator, <<scheme, rest>>                               *)
(*   swFetch   outcome of fetch(url) in the service worker                 *)
(*   pageFetch outcome of fetch(url) in the page: "ok", "bad" (a response  *)
(*             with a non-2xx status) or "reject" (no response)            *)
(*   type      blob.type, <<kind, subtype>> (<<>> when there is none)      *)
(*   size      blob.size in bytes                                          *)
(*   decodable whether createImageBitmap accepts the bytes                 *)
(*   width, height  the natural size of the decoded bitmap                 *)
(* A platform says which of the canvas steps work: draw (OffscreenCanvas,  *)
(* getContext, drawImage), encode (convertToBlob), read (FileReader).      *)
(***************************************************************************)
StartsWith(s, prefix) == Len(s) >= 1 /\ s[1] = prefix

MAX_SIZE == 20 * 1024 * 1024

BadStatus == 404

FetchRejected   == <<"Failed to fetch">>
DecodeFailed    == <<"The source image could not be decoded.">>
DrawFailed      == <<"Cannot read properties of null (reading 'drawImage')">>
EncodeFailed    == <<"The canvas could not be encoded.">>
ReadFailed      == <<"Failed to encode resized image.">>
TooLargeSW      == <<"Image is too large (over 20 MB). Try a smaller image.">>
TooLargePage    == <<"Image is too large (over 20 MB).">>
NotAnImage(t)   == <<"URL did not return an image (got ">> \o t \o <<")">>
FetchStatusSW   == <<"Failed to fetch image (", ToString(BadStatus), ")">>
FetchStatusPage == <<"Fetch failed (", ToString(BadStatus), ")">>

Thrown(msg, events) ==
  [ok |-> FALSE, err |-> msg, ev |-> events, w |-> 0, h |-> 0, data |-> <<>>]

\* thrown once the canvas of size dims exists
ThrownAt(msg, events, dims) ==
  [ok |-> FALSE, err |-> msg, ev |-> events, w |-> dims.w, h |-> dims.h, data |-> <<>>]

Resolved(by, s, dims, events) ==
  [ok |-> TRUE, err |-> <<>>, ev |-> events, w |-> dims.w, h |-> dims.h,
   data |-> <<"data:image/jpeg;base64,", by, s.url, dims.w, dims.h>>]

\* the steps both normalizers share once the blob has passed their checks:
\* decode, scale, draw, release, encode, read back as a data URL
DecodeAndEncode(by, s, plat, events) ==
  LET e1   == events \o <<"createImageBitmap">>
      dims == ScaledDims(s.width, s.height)
      e2   == e1 \o <<"OffscreenCanvas", "getContext", "drawImage">>
      e3   == e2 \o <<"bitmap.close", "convertToBlob">>
      e4   == e3 \o <<"readAsDataURL">>
  IN IF ~s.decodable THEN Thrown(DecodeFailed, e1)
     ELSE IF ~plat.draw THEN ThrownAt(DrawFailed, e2, dims)
     ELSE IF ~plat.encode \/ dims.w = 0 \/ dims.h = 0 THEN ThrownAt(EncodeFailed, e3, dims)
     ELSE IF ~plat.read THEN ThrownAt(ReadFailed, e4, dims)
     ELSE Resolved(by, s, dims, e4)

\* imageUrlToBase64 without the size check
imageUrlToBase64Unbounded(s, plat) ==
  IF s.swFetch = "reject" THEN Thrown(FetchRejected, <<"fetch">>)
  ELSE IF ~StartsWith(s.url, "data:") /\ s.swFetch # "ok"
  THEN Thrown(FetchStatusSW, <<"fetch">>)
  ELSE IF ~StartsWith(s.type, "image/")
  THEN Thrown(NotAnImage(s.type), <<"fetch", "blob">>)
  ELSE DecodeAndEncode("sw", s, plat, <<"fetch", "blob">>)

\* imageUrlToBase64 of the service worker
imageUrlToBase64(s, plat) ==
  IF s.swFetch = "reject" THEN Thrown(FetchRejected, <<"fetch">>)
  ELSE IF ~StartsWith(s.url, "data:") /\ s.swFetch # "ok"
  THEN Thrown(FetchStatusSW, <<"fetch">>)
  ELSE IF ~StartsWith(s.type, "image/")
  THEN Thrown(NotAnImage(s.type), <<"fetch", "blob">>)
  ELSE IF s.size > MAX_SIZE THEN Thrown(TooLargeSW, <<"fetch", "blob">>)
  ELSE DecodeAndEncode("sw", s, plat, <<"fetch", "blob">>)

\* fetchImageAsBase64 of the content script
fetchImageAsBase64(s, plat) ==
  IF s.pageFetch = "reject" THEN Thrown(FetchRejected, <<"fetch">>)
  ELSE IF ~StartsWith(s.url, "data:") /\ s.pageFetch # "ok"
  THEN Thrown(FetchStatusPage, <<"fetch">>)
  ELSE IF s.size > 20 * 1024 * 1024 THEN Thrown(TooLargePage, <<"fetch", "blob">>)
  ELSE DecodeAndEncode("page", s, plat, <<"fetch", "blob">>)

(***************************************************************************)
(* The captioning client.  A response of the chat-completions endpoint is  *)
(*   net     "ok" or "reject" (fetch itself fails)                         *)
(*   status  the HTTP status                                               *)
(*   json    whether the body parses as JSON                               *)
(*   error   data.error.message (<<>> when absent)                         *)
(*   content choices[0].message.content: [kind |-> "string", text |-> t],  *)
(*           [kind |-> "array", parts |-> <<[type, text], ...>>] or        *)
(*           [kind |-> "none"]                                             *)
(*   finish  choices[0].finish_reason                                      *)
(*   usage   data.usage, [prompt_tokens, completion_tokens, total_tokens]  *)
(* Texts are sequences of tokens; " " is white space.                      *)
(***************************************************************************)
RECURSIVE TrimStart(_)
TrimStart(t) == IF t # <<>> /\ Head(t) = " " THEN TrimStart(Tail(t)) ELSE t

RECURSIVE TrimEnd(_)
TrimEnd(t) ==
  IF t # <<>> /\ t[Len(t)] = " " THEN TrimEnd(SubSeq(t, 1, Len(t) - 1)) ELSE t

\* String.prototype.trim
Trim(t) == TrimEnd(TrimStart(t))

RECURSIVE JoinText(_)
\* content.filter((p) => p.type === 'text' && p.text).map((p) => p.text).join('')
JoinText(parts) ==
  IF parts = <<>> THEN <<>>
  ELSE (IF Head(parts).type = "text" /\ Head(parts).text # <<>>
        THEN Head(parts).text ELSE <<>>) \o JoinText(Tail(parts))

\* a || b on strings
OrElse(a, b) == IF a # <<>> THEN a ELSE b

\* the decimal numeral of n / 10^4 with four digits after the point
Fixed4(n) ==
  <<ToString(n \div 10000), ".", ToString((n \div 1000) % 10), ToString((n \div 100) % 10),
    ToString((n \div 10) % 10), ToString(n % 10)>>

\* x.toFixed(4) for a double 0 <= x < 1: the n with n / 10^4 nearest to x,
\* the larger one of two
toFixed(x) ==
  LET scaled == BigMulSmall(x.m, 10000, 0)
  IN IF x.m = <<>> THEN Fixed4(0)
     ELSE Fixed4(BigToInt(BigShr(scaled, -x.e)) + BigBit(scaled, -x.e - 1))

\* the literals 1_000_000, 0.05, 0.40 and 100 as doubles and as quotients
MillionOdd == 15625          \* 1_000_000 = 15625 * 2^6
MillionTwos == 6
DEFAULT_INPUT_PRICE_PER_MILLION  == DblQuot(5, <<25>>, 2)  \* 0.05
DEFAULT_OUTPUT_PRICE_PER_MILLION == DblQuot(2, <<5>>, 0)   \* 0.40
Hundred == DblQuot(100, <<>>, 0)

CentSign == "U+00A2"

\* usage.name || 0
Count(usage, name) == IF name \in DOMAIN usage THEN usage[name] ELSE 0

\* the record calculateCost returns
CostRecord(tokens, inputCost, outputCost, totalCost) ==
  [totalUsd   |-> totalCost,
   costCents  |-> toFixed(DblMul(totalCost, Hundred)) \o <<CentSign>>,
   inputCost  |-> inputCost,
   outputCost |-> outputCost,
   tokens     |-> tokens]

\* totalCost = inputCost alone
InputCostOnly(tokens, inputCost, outputCost) ==
  CostRecord(tokens, inputCost, outputCost, inputCost)

\* totalCost = inputCost + outputCost
TotalCost(tokens, inputCost, outputCost) ==
  CostRecord(tokens, inputCost, outputCost, DblAdd(inputCost, outputCost))

\* (n / 1_000_000) * price
TokenCost(n, price) == DblMul(DblQuot(n, <<MillionOdd>>, MillionTwos), price)

\* calculateCost with the cost taken from the prompt tokens alone
calculateCostInputOnly(usage) ==
  InputCostOnly([prompt     |-> Count(usage, "prompt_tokens"),
                 completion |-> Count(usage, "completion_tokens"),
                 total      |-> Count(usage, "total_tokens")],
                TokenCost(Count(usage, "prompt_tokens"), DEFAULT_INPUT_PRICE_PER_MILLION),
                TokenCost(Count(usage, "completion_tokens"), DEFAULT_OUTPUT_PRICE_PER_MILLION))

\* calculateCost(usage)
calculateCost(usage) ==
  TotalCost([prompt     |-> Count(usage, "prompt_tokens"),
             completion |-> Count(usage, "completion_tokens"),
             total      |-> Count(usage, "total_tokens")],
            TokenCost(Count(usage, "prompt_tokens"), DEFAULT_INPUT_PRICE_PER_MILLION),
            TokenCost(Count(usage, "completion_tokens"), DEFAULT_OUTPUT_PRICE_PER_MILLION))

NoKeyClient   == <<"API key not configured. Open EveryAlt settings to add your OpenAI key.">>
JsonFailed    == <<"Unexpected token < in JSON at position 0">>
CutOff        == <<"Response was cut off (max tokens reached). Increase max tokens in settings.">>
EmptyResponse == <<"OpenAI returned an empty response. Try again.">>
ApiStatus(st) == <<"OpenAI API returned ", ToString(st)>>

NoUsage == [prompt_tokens |-> 0, completion_tokens |-> 0, total_tokens |-> 0]

\* the cost of a call that used no tokens
NoCost == calculateCost(NoUsage)

ClientThrew(msg, sent) ==
  [ok |-> FALSE, err |-> msg, sent |-> sent, altText |-> <<>>,
   usage |-> NoUsage, cost |-> NoCost]

\* choices[0].message.content as text
ContentText(content) ==
  IF content.kind = "string" THEN Trim(content.text)
  ELSE IF content.kind = "array" THEN Trim(JoinText(content.parts))
  ELSE <<>>

\* generateAltText without the finish_reason test
generateAltTextPartial(base64DataUrl, settings, resp) ==
  IF settings.apiKey = "" THEN ClientThrew(NoKeyClient, FALSE)
  ELSE IF resp.net = "reject" THEN ClientThrew(FetchRejected, TRUE)
  ELSE IF ~resp.json THEN ClientThrew(JsonFailed, TRUE)
  ELSE IF ~(resp.status \in 200..299)
  THEN ClientThrew(OrElse(resp.error, ApiStatus(resp.status)), TRUE)
  ELSE LET altText == ContentText(resp.content) IN
       IF altText = <<>> THEN ClientThrew(EmptyResponse, TRUE)
       ELSE [ok |-> TRUE, err |-> <<>>, sent |-> TRUE, altText |-> altText,
             usage |-> resp.usage, cost |-> calculateCost(resp.usage)]

\* generateAltText; sent says whether the request went out
generateAltText(base64DataUrl, settings, resp) ==
  IF settings.apiKey = "" THEN ClientThrew(NoKeyClient, FALSE)
  ELSE IF resp.net = "reject" THEN ClientThrew(FetchRejected, TRUE)
  ELSE IF ~resp.json THEN ClientThrew(JsonFailed, TRUE)
  ELSE IF ~(resp.status \in 200..299)
  THEN ClientThrew(OrElse(resp.error, ApiStatus(resp.status)), TRUE)
  ELSE LET altText == ContentText(resp.content) IN
       IF resp.finish = "length" THEN ClientThrew(CutOff, TRUE)
       ELSE IF altText = <<>> THEN ClientThrew(EmptyResponse, TRUE)
       ELSE [ok |-> TRUE, err |-> <<>>, sent |-> TRUE, altText |-> altText,
             usage |-> resp.usage, cost |-> calculateCost(resp.usage)]

OPENAI_CHAT_URL   == <<"https:", "//api.openai.com/v1/chat/completions">>
OPENAI_MODELS_URL == <<"https:", "//api.openai.com/v1/models">>

KeyEmpty      == <<"API key is empty.">>
KeyValid      == <<"API key is valid.">>
KeyInvalid    == <<"Invalid API key. Check that the key is correct.">>
KeyStatus(st) == <<"Validation returned status ", ToString(st), ". Try again.">>
KeyNetwork(m) == <<"Network error: ">> \o m

\* a JavaScript value handed over as the key: a string (its text a sequence
\* of tokens, " " being white space), a number, or undefined
StringValue(t) == [type |-> "string", text |-> t, value |-> 0]
NumberValue(n) == [type |-> "number", text |-> <<>>, value |-> n]
UndefinedValue == [type |-> "undefined", text |-> <<>>, value |-> 0]

\* !v
Falsy(v) ==
  \/ v.type = "undefined"
  \/ v.type = "string" /\ v.text = <<>>
  \/ v.type = "number" /\ v.value = 0

NoRequest == [url |-> <<>>, authorization |-> <<>>]

\* a settled promise of {valid, message}; request is what went to the network
KeyResolved(valid, message, request) ==
  [settled |-> "resolved", valid |-> valid, message |-> message, request |-> request]

KeyRejected(message, request) ==
  [settled |-> "rejected", valid |-> FALSE, message |-> message, request |-> request]

\* validateApiKey without its try/catch
validateApiKeyUncaught(apiKey, resp) ==
  IF Falsy(apiKey) \/ apiKey.type # "string" \/ Trim(apiKey.text) = <<>>
  THEN KeyResolved(FALSE, KeyEmpty, NoRequest)
  ELSE LET request == [url |-> OPENAI_MODELS_URL,
                       authorization |-> <<"Bearer ">> \o Trim(apiKey.text)]
       IN IF resp.net = "reject" THEN KeyRejected(resp.error, request)
          ELSE IF resp.status \in 200..299 THEN KeyResolved(TRUE, KeyValid, request)
          ELSE IF resp.status = 401 THEN KeyResolved(FALSE, KeyInvalid, request)
          ELSE KeyResolved(FALSE, KeyStatus(resp.status), request)

\* validateApiKey(apiKey), the models endpoint answering resp
validateApiKey(apiKey, resp) ==
  IF Falsy(apiKey) \/ apiKey.type # "string" \/ Trim(apiKey.text) = <<>>
  THEN KeyResolved(FALSE, KeyEmpty, NoRequest)
  ELSE LET request == [url |-> OPENAI_MODELS_URL,
                       authorization |-> <<"Bearer ">> \o Trim(apiKey.text)]
       IN IF resp.net = "reject" THEN KeyResolved(FALSE, KeyNetwork(resp.error), request)
          ELSE IF resp.status \in 200..299 THEN KeyResolved(TRUE, KeyValid, request)
          ELSE IF resp.status = 401 THEN KeyResolved(FALSE, KeyInvalid, request)
          ELSE KeyResolved(FALSE, KeyStatus(resp.status), request)

(***************************************************************************)
(* State.                                                                  *)
(***************************************************************************)
VARIABLES
  storage,  \* chrome.storage.local: apiKey, apiKeyValidated, settings, metadata, generationLog
  now,      \* Date.now()
  inst,     \* the pipeline instances of the service worker, one per trigger
  norm,     \* one run of a normalizer on its own: [ctx, src, plat, res]
  calls,    \* direct callers of the log store or of the API client
  hist,     \* history of the direct store calls: [started, initial, overlapped]
  page      \* the content script's state in the tab and the overlays it attached

vars == <<storage, now, inst, norm, calls, hist, page>>

(***************************************************************************)
(* The generation log (src/lib/utils.js).                                  *)
(***************************************************************************)
MAX_LOG_ENTRIES == 10

\* log.push in the place of log.unshift: the entry goes to the end
Pushed(log, entry, time) ==
  log \o <<[entry EXCEPT !.timestamp = IF @ # 0 THEN @ ELSE time]>>

\* log.unshift({ ...entry, timestamp: entry.timestamp || Date.now() })
Unshift(log, entry, time) ==
  <<[entry EXCEPT !.timestamp = IF @ # 0 THEN @ ELSE time]>> \o log

\* log.slice(-MAX_LOG_ENTRIES): the oldest entries kept
SliceOldest(log) == SubSeq(log, Max(1, Len(log) - MAX_LOG_ENTRIES + 1), Len(log))

\* log.slice(0, MAX_LOG_ENTRIES)
Slice(log) == SubSeq(log, 1, Min(Len(log), MAX_LOG_ENTRIES))

\* the new entry put in front, nothing cut off
AddLogValueUncut(log, entry, time) == Unshift(log, entry, time)

\* what addLogEntry's storage.get callback hands to storage.set
AddLogValue(log, entry, time) == Slice(Unshift(log, entry, time))

DefaultSettingsBundle == [customPrompt |-> <<>>, maxTokens |-> 0, model |-> ""]

InitStorage(key, log) ==
  [apiKey |-> key, apiKeyValidated |-> key # "",
   settings |-> DefaultSettingsBundle,
   metadata |-> [lastUpdated |-> 0, version |-> ""],
   generationLog |-> log]

\* getSettings: the stored values with the defaults applied
getSettings(st) ==
  [apiKey          |-> st.apiKey,
   apiKeyValidated |-> st.apiKeyValidated,
   model           |-> IF st.settings.model # "" THEN st.settings.model ELSE "gpt-5-nano",
   maxTokens       |-> IF st.settings.maxTokens # 0 THEN st.settings.maxTokens ELSE 1024,
   customPrompt    |-> st.settings.customPrompt,
   imageDetail     |-> "low",
   metadata        |-> st.metadata]

(***************************************************************************)
(* The dispatch pipelines of the service worker.  An instance is one run   *)
(* of the context-menu listener or of handleRegenerate; its trace lists    *)
(* what it has done to the outside: messages to the tab, storage calls,    *)
(* the normalizer and the captioning client.                               *)
(***************************************************************************)
NumInstances == 2
Instances == 1..NumInstances

Src(url, sw, cs, type, size, dec, w, h) ==
  [url |-> url, swFetch |-> sw, pageFetch |-> cs, type |-> type, size |-> size,
   decodable |-> dec, width |-> w, height |-> h]

Png  == <<"image/", "png">>
Html == <<"text/", "html">>

NoSource  == Src(<<>>, "reject", "reject", <<>>, 0, FALSE, 0, 0)
SrcPlain  == Src(<<"https:", "//a.example/photo.png">>, "ok", "ok", Png, 1024, TRUE, 300, 120)
SrcCors   == Src(<<"https:", "//b.example/photo.png">>, "reject", "ok", Png, 1024, TRUE, 300, 120)
SrcHtml   == Src(<<"https:", "//c.example/page">>, "ok", "ok", Html, 1024, TRUE, 300, 120)
SrcHuge   == Src(<<"https:", "//d.example/huge.png">>, "ok", "ok", Png, MAX_SIZE + 1, TRUE, 300, 120)
SrcGone   == Src(<<"https:", "//e.example/gone.png">>, "bad", "bad", Png, 1024, TRUE, 300, 120)
SrcBroken == Src(<<"https:", "//f.example/broken.png">>, "ok", "ok", Png, 1024, FALSE, 300, 120)

PipelineSources == {SrcPlain, SrcCors, SrcHtml, SrcHuge, SrcGone, SrcBroken}

AllOk    == [draw |-> TRUE, encode |-> TRUE, read |-> TRUE]
NoEncode == [draw |-> TRUE, encode |-> FALSE, read |-> TRUE]
PipelinePlatforms == {AllOk, NoEncode}

Usage(p, c) == [prompt_tokens |-> p, completion_tokens |-> c, total_tokens |-> p + c]

Resp(net, status, json, error, content, finish, usage) ==
  [net |-> net, status |-> status, json |-> json, error |-> error,
   content |-> content, finish |-> finish, usage |-> usage]

StringContent(t) == [kind |-> "string", text |-> t, parts |-> <<>>]
ArrayContent(p)  == [kind |-> "array", text |-> <<>>, parts |-> p]
NoContent        == [kind |-> "none", text |-> <<>>, parts |-> <<>>]

RespStop   == Resp("ok", 200, TRUE, <<>>, StringContent(<<" ", "A red bicycle.">>), "stop", Usage(120, 5))
RespLength == Resp("ok", 200, TRUE, <<>>, StringContent(<<"A red">>), "length", Usage(120, 2))
RespEmpty  == Resp("ok", 200, TRUE, <<>>, NoContent, "stop", Usage(120, 0))
RespError  == Resp("ok", 500, TRUE, <<"The server had an error.">>, NoContent, "", NoUsage)
RespReject == Resp("reject", 0, FALSE, <<>>, NoContent, "", NoUsage)
NoResp     == Resp("none", 0, FALSE, <<>>, NoContent, "", NoUsage)

ApiResponses == {RespStop, RespLength, RespEmpty, RespError, RespReject}

OptionsUrl == <<"chrome-extension://everyalt/options.html">>

NoKeyClick == <<"API key not configured. Click to open EveryAlt settings.">>
NoKeyRegen == <<"API key not configured.">>
CouldNotLoad == <<"Could not load image: ">>
NoReply == <<"Content script could not fetch image.">>
NoReceiver == <<"Could not establish connection. Receiving end does not exist.">>

\* chrome.runtime.lastError.message is an optional string
LastErrorMessages == {<<>>, NoReceiver}

Ev(k, v) == [k |-> k, v |-> v]

ShowLoading == [type |-> "EVERYALT_SHOW_LOADING"]
ShowError(message, actionUrl) ==
  [type |-> "EVERYALT_SHOW_ERROR", message |-> message, actionUrl |-> actionUrl]
ShowResult(altText, imageUrl, usage, cost) ==
  [type |-> "EVERYALT_SHOW_RESULT", altText |-> altText, imageUrl |-> imageUrl,
   usage |-> usage, cost |-> cost]
FetchImage(imageUrl) == [type |-> "EVERYALT_FETCH_IMAGE", imageUrl |-> imageUrl]

\* sendToTab: chrome.tabs.sendMessage with its rejection swallowed
sendToTab(trace, tabId, message) ==
  Append(trace, Ev("tabs.sendMessage", [tab |-> tabId, msg |-> message]))

(***************************************************************************)
(* The content script (src/content-script.js): its closure variables and   *)
(* the overlays and keydown handlers it has attached to the document.      *)
(***************************************************************************)
NoPage ==
  [injected |-> FALSE, listeners |-> 0, overlays |-> {}, escHandlers |-> {},
   currentModal |-> 0, currentImageUrl |-> <<>>]

\* the script runs in the page: the guard lets it register its listener once
InjectContentScript(pg) ==
  IF pg.injected THEN pg ELSE [pg EXCEPT !.injected = TRUE, !.listeners = @ + 1]

\* an identity for a newly created overlay element
NewOverlay(pg) ==
  LET used == {o.id : o \in pg.overlays} \cup pg.escHandlers
  IN CHOOSE n \in 1..(Cardinality(used) + 1) : n \notin used

\* removeModal without removeEventListener
removeModalKeepsHandler(pg) ==
  IF pg.currentModal # 0
  THEN [pg EXCEPT !.overlays = {o \in @ : o.id # pg.currentModal},
                  !.currentModal = 0]
  ELSE pg

removeModal(pg) ==
  IF pg.currentModal # 0
  THEN [pg EXCEPT !.escHandlers = @ \ {pg.currentModal},
                  !.overlays = {o \in @ : o.id # pg.currentModal},
                  !.currentModal = 0]
  ELSE pg

\* removeModal, createModalShell (which registers the Escape handler), the
\* body and the buttons of the view, appendChild, currentModal = modal
ShowModal(pg, view) ==
  LET q  == removeModal(pg)
      id == NewOverlay(q)
  IN [q EXCEPT !.escHandlers = @ \cup {id},
               !.overlays = @ \cup {[id |-> id, view |-> view]},
               !.currentModal = id]

LoadingView == [kind |-> "loading", text |-> <<"Generating alt text">>, actions |-> {}]
ResultView(altText, cost) ==
  [kind |-> "result", text |-> altText, cost |-> cost,
   actions |-> {"Copy", "Regenerate", "Close"}]
ErrorView(message, actionUrl) ==
  [kind |-> "error", text |-> OrElse(message, <<"An error occurred.">>),
   link |-> actionUrl, actions |-> {"Close"}]

showLoading(pg) == ShowModal(pg, LoadingView)
showResult(pg, altText, cost) == ShowModal(pg, ResultView(altText, cost))
showError(pg, message, actionUrl) == ShowModal(pg, ErrorView(message, actionUrl))

\* a listener that lets only the first terminal signal after a loading
\* signal through
onMessageFenced(pg, request) ==
  CASE request.type = "EVERYALT_SHOW_LOADING" -> showLoading(pg)
    [] request.type = "EVERYALT_SHOW_RESULT" /\ LoadingView \in {o.view : o \in pg.overlays} ->
         showResult([pg EXCEPT !.currentImageUrl = request.imageUrl],
                    request.altText, request.cost)
    [] request.type = "EVERYALT_SHOW_ERROR" /\ LoadingView \in {o.view : o \in pg.overlays} ->
         showError(pg, request.message, request.actionUrl)
    [] OTHER -> pg

\* chrome.runtime.onMessage listener of the content script
onMessage(pg, request) ==
  CASE request.type = "EVERYALT_SHOW_LOADING" -> showLoading(pg)
    [] request.type = "EVERYALT_SHOW_RESULT" ->
         showResult([pg EXCEPT !.currentImageUrl = request.imageUrl],
                    request.altText, request.cost)
    [] request.type = "EVERYALT_SHOW_ERROR" ->
         showError(pg, request.message, request.actionUrl)
    [] OTHER -> pg

\* a message sent to the tab reaches the listener when there is one; without
\* a listener the send rejects, and sendToTab swallows the rejection
Delivered(pg, message) == IF pg.listeners = 0 THEN pg ELSE onMessage(pg, message)

\* the view of the overlay that currentModal refers to
Shown(pg) == {o.view : o \in {o \in pg.overlays : o.id = pg.currentModal}}

SuccessEntry(imageUrl, result) ==
  [status |-> "success", imageUrl |-> imageUrl, altText |-> result.altText,
   usage |-> result.usage, cost |-> result.cost, timestamp |-> 0]

ErrorEntry(imageUrl, error) ==
  [status |-> "error", imageUrl |-> imageUrl, error |-> error, timestamp |-> 0]

NoEntry  == [status |-> "none", timestamp |-> 0]
NoResult == ClientThrew(<<>>, FALSE)
NoSettings == getSettings(InitStorage("", <<>>))

IdleInstance ==
  [pc |-> "idle", kind |-> "none", src |-> NoSource, tabId |-> 0,
   settings |-> NoSettings, fetchErr |-> <<>>, csErr |-> <<>>, err |-> <<>>,
   base64DataUrl |-> <<>>, resp |-> NoResp, result |-> NoResult,
   entry |-> NoEntry, log |-> <<>>, trace |-> <<>>]

\* what the catch blocks log and signal when err.message is ''
LogDefault(kind)    == IF kind = "click" THEN <<"Unknown error">> ELSE <<"Regeneration failed">>
SignalDefault(kind) ==
  IF kind = "click" THEN <<"An unexpected error occurred.">> ELSE <<"Regeneration failed.">>

\* a catch block that signals without logging
CaughtUnlogged(p, err) ==
  [p EXCEPT !.err = err, !.pc = "signal",
            !.entry = ErrorEntry(p.src.url, OrElse(err, LogDefault(p.kind)))]

\* control reaches the catch block with err: addLogEntry is called next
Caught(p, err) ==
  [p EXCEPT !.err = err, !.pc = "logGet",
            !.entry = ErrorEntry(p.src.url, OrElse(err, LogDefault(p.kind)))]

ClickInfos ==
  {[menuItemId |-> "generate-alt-text", srcUrl |-> s] : s \in PipelineSources \cup {NoSource}}
  \cup {[menuItemId |-> "other-item", srcUrl |-> SrcPlain]}

TabIds == {0, 1}     \* 0: no tab, or a tab without an id

\* chrome.contextMenus.onClicked, up to the await of ensureContentScript
Click(i) ==
  /\ inst[i].pc = "idle"
  /\ \E info \in ClickInfos, tab \in TabIds :
       IF info.menuItemId # "generate-alt-text" \/ info.srcUrl.url = <<>> \/ tab = 0
       THEN inst' = [inst EXCEPT ![i].pc = "returned", ![i].kind = "click"]
       ELSE inst' = [inst EXCEPT ![i].pc = "inject", ![i].kind = "click",
                                 ![i].src = info.srcUrl, ![i].tabId = tab,
                                 ![i].trace = <<Ev("scripting.executeScript", tab)>>]
  /\ UNCHANGED <<storage, now, norm, calls, hist, page>>

\* ensureContentScript has settled (injected, or the failure swallowed):
\* the loading message goes out and getSettings is awaited
ContentScriptEnsured(i) ==
  /\ inst[i].pc = "inject"
  /\ inst' = [inst EXCEPT ![i].pc = "settings",
                          ![i].trace = sendToTab(@, inst[i].tabId, ShowLoading)]
  /\ \E injected \in BOOLEAN :
       page' = Delivered(IF injected THEN InjectContentScript(page) ELSE page, ShowLoading)
  /\ UNCHANGED <<storage, now, norm, calls, hist>>

\* handleRegenerate, up to the await of getSettings
Regenerate(i) ==
  /\ inst[i].pc = "idle"
  /\ \E s \in PipelineSources, tab \in TabIds :
       IF tab = 0
       THEN inst' = [inst EXCEPT ![i].pc = "returned", ![i].kind = "regen"]
       ELSE inst' = [inst EXCEPT ![i].pc = "settings", ![i].kind = "regen",
                                 ![i].src = s, ![i].tabId = tab,
                                 ![i].trace = sendToTab(<<>>, tab, ShowLoading)]
  /\ page' = IF inst'[i].pc = "returned" THEN page ELSE Delivered(page, ShowLoading)
  /\ UNCHANGED <<storage, now, norm, calls, hist>>

\* the credential check without its return
SettingsReadNoReturn(i) ==
  /\ inst[i].pc = "settings"
  /\ LET p == inst[i]
         s == getSettings(storage)
         t == Append(p.trace, Ev("storage.get", "settings"))
     IN IF s.apiKey = ""
        THEN inst' = [inst EXCEPT ![i] =
               [p EXCEPT !.pc = "normalize", !.settings = s,
                         !.trace = sendToTab(t, p.tabId,
                            IF p.kind = "click" THEN ShowError(NoKeyClick, OptionsUrl)
                            ELSE ShowError(NoKeyRegen, <<>>))]]
        ELSE inst' = [inst EXCEPT ![i] =
               [p EXCEPT !.pc = "normalize", !.settings = s, !.trace = t]]
  /\ page' = IF getSettings(storage).apiKey # "" THEN page
             ELSE Delivered(page, IF inst[i].kind = "click"
                                  THEN ShowError(NoKeyClick, OptionsUrl)
                                  ELSE ShowError(NoKeyRegen, <<>>))
  /\ UNCHANGED <<storage, now, norm, calls, hist>>

\* no credential check in the listener
SettingsReadNoCheck(i) ==
  /\ inst[i].pc = "settings"
  /\ inst' = [inst EXCEPT ![i].pc = "normalize", ![i].settings = getSettings(storage),
                          ![i].trace = Append(@, Ev("storage.get", "settings"))]
  /\ UNCHANGED <<storage, now, norm, calls, hist, page>>

\* getSettings has resolved: the credential check
SettingsRead(i) ==
  /\ inst[i].pc = "settings"
  /\ LET p == inst[i]
         s == getSettings(storage)
         t == Append(p.trace, Ev("storage.get", "settings"))
     IN IF s.apiKey = ""
        THEN inst' = [inst EXCEPT ![i] =
               [p EXCEPT !.pc = "done", !.settings = s,
                         !.trace = sendToTab(t, p.tabId,
                            IF p.kind = "click" THEN ShowError(NoKeyClick, OptionsUrl)
                            ELSE ShowError(NoKeyRegen, <<>>))]]
        ELSE inst' = [inst EXCEPT ![i] =
               [p EXCEPT !.pc = "normalize", !.settings = s, !.trace = t]]
  /\ page' = IF getSettings(storage).apiKey # "" THEN page
             ELSE Delivered(page, IF inst[i].kind = "click"
                                  THEN ShowError(NoKeyClick, OptionsUrl)
                                  ELSE ShowError(NoKeyRegen, <<>>))
  /\ UNCHANGED <<storage, now, norm, calls, hist>>

\* the content script is asked whatever the service worker's result
PrivilegedDoneAsksAnyway(i) ==
  /\ inst[i].pc = "normalize"
  /\ \E plat \in PipelinePlatforms :
       LET p == inst[i]
           r == imageUrlToBase64(p.src, plat)
           t == Append(p.trace, Ev("imageUrlToBase64", r))
       IN inst' = [inst EXCEPT ![i] =
            [p EXCEPT !.pc = "fallback", !.fetchErr = r.err,
                      !.trace = sendToTab(t, p.tabId, FetchImage(p.src.url))]]
  /\ UNCHANGED <<storage, now, norm, calls, hist, page>>

\* imageUrlToBase64 has settled in the service worker; a failure sends the
\* fetch-image request to the content script
PrivilegedDone(i) ==
  /\ inst[i].pc = "normalize"
  /\ \E plat \in PipelinePlatforms :
       LET p == inst[i]
           r == imageUrlToBase64(p.src, plat)
           t == Append(p.trace, Ev("imageUrlToBase64", r))
       IN IF r.ok
          THEN inst' = [inst EXCEPT ![i] =
                 [p EXCEPT !.pc = "caption", !.base64DataUrl = r.data, !.trace = t]]
          ELSE inst' = [inst EXCEPT ![i] =
                 [p EXCEPT !.pc = "fallback", !.fetchErr = r.err,
                           !.trace = sendToTab(t, p.tabId, FetchImage(p.src.url))]]
  /\ UNCHANGED <<storage, now, norm, calls, hist, page>>

NoLastError == [set |-> FALSE, message |-> <<>>]
LastError(m) == [set |-> TRUE, message |-> m]
Undefined == [defined |-> FALSE, success |-> FALSE, data |-> <<>>, error |-> <<>>]

\* the content script's answer to EVERYALT_FETCH_IMAGE
ContentScriptResponse(s, plat) ==
  LET r == fetchImageAsBase64(s, plat) IN
  [defined |-> TRUE, success |-> r.ok, data |-> r.data, error |-> r.err]

\* what the sendMessage callback may see: lastError set, or a response
FallbackReplies(s) ==
  {[lastError |-> LastError(m), response |-> Undefined] : m \in LastErrorMessages}
  \cup {[lastError |-> NoLastError, response |-> Undefined]}
  \cup {[lastError |-> NoLastError, response |-> ContentScriptResponse(s, plat)] :
          plat \in PipelinePlatforms}

\* requestBase64FromContentScript: the callback's resolve or reject
requestBase64FromContentScript(reply) ==
  IF reply.lastError.set
  THEN [ok |-> FALSE, data |-> <<>>, err |-> reply.lastError.message]
  ELSE IF reply.response.defined /\ reply.response.success
  THEN [ok |-> TRUE, data |-> reply.response.data, err |-> <<>>]
  ELSE [ok |-> FALSE, data |-> <<>>,
        err |-> IF reply.response.defined THEN OrElse(reply.response.error, NoReply)
                ELSE NoReply]

\* both messages in the error
BothFailedCombined(kind, fetchErr, csErr) == CouldNotLoad \o csErr \o fetchErr

\* the error thrown when the fallback fails too
BothFailed(kind, fetchErr, csErr) ==
  IF kind = "click" THEN CouldNotLoad \o OrElse(csErr, fetchErr) ELSE csErr

\* the fallback has settled
FallbackDone(i) ==
  /\ inst[i].pc = "fallback"
  /\ \E reply \in FallbackReplies(inst[i].src) :
       LET p == inst[i]
           r == requestBase64FromContentScript(reply)
           t == Append(p.trace, Ev("requestBase64FromContentScript", r))
       IN IF r.ok
          THEN inst' = [inst EXCEPT ![i] =
                 [p EXCEPT !.pc = "caption", !.base64DataUrl = r.data, !.trace = t]]
          ELSE inst' = [inst EXCEPT ![i] =
                 Caught([p EXCEPT !.csErr = r.err, !.trace = t],
                        BothFailed(p.kind, p.fetchErr, r.err))]
  /\ UNCHANGED <<storage, now, norm, calls, hist, page>>

\* the result is signalled without the success entry being stored first
CaptionDoneUnlogged(i) ==
  /\ inst[i].pc = "caption"
  /\ \E resp \in ApiResponses :
       LET p == inst[i]
           r == generateAltText(p.base64DataUrl, p.settings, resp)
           q == [p EXCEPT !.resp = resp,
                          !.trace = Append(@, Ev("generateAltText",
                                     [url |-> p.base64DataUrl, sent |-> r.sent]))]
       IN IF r.ok
          THEN inst' = [inst EXCEPT ![i] =
                 [q EXCEPT !.pc = "signal", !.result = r,
                           !.entry = SuccessEntry(p.src.url, r)]]
          ELSE inst' = [inst EXCEPT ![i] = Caught(q, r.err)]
  /\ UNCHANGED <<storage, now, norm, calls, hist, page>>

\* generateAltText has settled
CaptionDone(i) ==
  /\ inst[i].pc = "caption"
  /\ \E resp \in ApiResponses :
       LET p == inst[i]
           r == generateAltText(p.base64DataUrl, p.settings, resp)
           q == [p EXCEPT !.resp = resp,
                          !.trace = Append(@, Ev("generateAltText",
                                     [url |-> p.base64DataUrl, sent |-> r.sent]))]
       IN IF r.ok
          THEN inst' = [inst EXCEPT ![i] =
                 [q EXCEPT !.pc = "logGet", !.result = r,
                           !.entry = SuccessEntry(p.src.url, r)]]
          ELSE inst' = [inst EXCEPT ![i] = Caught(q, r.err)]
  /\ UNCHANGED <<storage, now, norm, calls, hist, page>>

\* addLogEntry: the storage.get callback runs
LogRead(i) ==
  /\ inst[i].pc = "logGet"
  /\ inst' = [inst EXCEPT ![i].pc = "logSet",
                          ![i].log = AddLogValue(storage.generationLog, inst[i].entry, now),
                          ![i].trace = Append(@, Ev("storage.get", "generationLog"))]
  /\ now' = now + 1
  /\ UNCHANGED <<storage, norm, calls, hist, page>>

\* storage.set is issued a second time before the call resolves
LogWriteAgain(i) ==
  /\ inst[i].pc = "logSet"
  /\ storage' = [storage EXCEPT !.generationLog = inst[i].log]
  /\ inst' = [inst EXCEPT
        ![i].pc = IF \E k \in 1..Len(inst[i].trace) : inst[i].trace[k].k = "storage.set"
                  THEN "signal" ELSE "logSet",
        ![i].trace = Append(@, Ev("storage.set", inst[i].log[1]))]
  /\ UNCHANGED <<now, norm, calls, hist, page>>

\* addLogEntry: storage.set stores the value
LogWrite(i) ==
  /\ inst[i].pc = "logSet"
  /\ storage' = [storage EXCEPT !.generationLog = inst[i].log]
  /\ inst' = [inst EXCEPT ![i].pc = "signal",
                          ![i].trace = Append(@, Ev("storage.set", inst[i].log[1]))]
  /\ UNCHANGED <<now, norm, calls, hist, page>>

\* addLogEntry has resolved: the result or the error goes to the tab
Signal(i) ==
  /\ inst[i].pc = "signal"
  /\ LET p == inst[i] IN
     inst' = [inst EXCEPT ![i].pc = "done",
        ![i].trace = sendToTab(@, p.tabId,
           IF p.entry.status = "success"
           THEN ShowResult(p.result.altText, p.src.url, p.result.usage, p.result.cost)
           ELSE ShowError(OrElse(p.err, SignalDefault(p.kind)), <<>>))]
  /\ page' = Delivered(page, inst'[i].trace[Len(inst'[i].trace)].v.msg)
  /\ UNCHANGED <<storage, now, norm, calls, hist>>

(***************************************************************************)
(* A normalizer run on its own: one source, one platform, one context.     *)
(***************************************************************************)
MaxDim   == 640
SmallDim == 12
DimStep  == 20

\* natural sizes tried: the small ones, the neighbours of MAX_DIMENSION, a grid
Dims ==
  {d \in 1..MaxDim :
     d <= SmallDim \/ d % DimStep = 0 \/ (d >= MAX_DIMENSION - 1 /\ d <= MAX_DIMENSION + 1)}

Platforms ==
  {AllOk, NoEncode, [AllOk EXCEPT !.draw = FALSE], [AllOk EXCEPT !.read = FALSE]}

\* decodable images of every size in Dims, fetched and typed as images
SizedSources ==
  {Src(<<"https:", "//a.example/photo.png">>, "ok", "ok", Png, 1024, TRUE, w, h) :
     w \in Dims, h \in Dims}

\* every combination of scheme, fetch outcome, type, size and decodability
MixedSources ==
  {Src(<<scheme, "photo">>, f, f, type, size, dec, 500, 200) :
     scheme \in {"https:", "data:"}, f \in {"ok", "bad", "reject"},
     type \in {Png, Html, <<>>}, size \in {1024, MAX_SIZE, MAX_SIZE + 1},
     dec \in BOOLEAN}

NormRuns ==
  {[src |-> s, plat |-> AllOk] : s \in SizedSources}
  \cup {[src |-> s, plat |-> plat] : s \in MixedSources, plat \in Platforms}

NoNorm  == [ctx |-> "none", pc |-> "none", src |-> NoSource, plat |-> AllOk,
            res |-> Thrown(<<>>, <<>>)]

\* imageUrlToBase64(url) runs to its end in the service worker
RunPrivileged ==
  /\ norm.ctx = "sw" /\ norm.pc = "called"
  /\ norm' = [norm EXCEPT !.pc = "settled", !.res = imageUrlToBase64(norm.src, norm.plat)]
  /\ UNCHANGED <<storage, now, inst, calls, hist, page>>

\* fetchImageAsBase64(url) runs to its end in the content script
RunPageContext ==
  /\ norm.ctx = "page" /\ norm.pc = "called"
  /\ norm' = [norm EXCEPT !.pc = "settled", !.res = fetchImageAsBase64(norm.src, norm.plat)]
  /\ UNCHANGED <<storage, now, inst, calls, hist, page>>

(***************************************************************************)
(* The log store called directly: callers append entries (addLogEntry is   *)
(* a storage.get whose callback calls storage.set) and clear the log.      *)
(***************************************************************************)
NumCallers    == 2
MaxAppends    == 11
MaxClears     == 1
MaxInitialLog == 2

Callers == 1..NumCallers

IdleCall == [pc |-> "idle", entry |-> NoEntry, log |-> <<>>]
NoCalls  == [c \in Callers |-> IdleCall]
NoHist   == [started |-> <<>>, initial |-> <<>>, overlapped |-> FALSE,
             appends |-> 0, clears |-> 0, cleared |-> {}]

\* the n entries a log holds from earlier sessions, newest first
OldEntries(n) ==
  [k \in 1..n |-> [ErrorEntry(<<"https:", "old", ToString(k)>>, <<"old">>)
                     EXCEPT !.timestamp = n - k + 1]]

InFlight == {c \in Callers : calls[c].pc = "set"}

\* addLogEntry(entry): the storage.get callback runs
StoreAddRead(c) ==
  /\ calls[c].pc = "idle"
  /\ hist.appends < MaxAppends
  /\ LET entry == ErrorEntry(<<"https:", "new", ToString(hist.appends + 1)>>, <<"failed">>)
         value == AddLogValue(storage.generationLog, entry, now)
     IN /\ calls' = [calls EXCEPT ![c] = [pc |-> "set", entry |-> entry, log |-> value]]
        /\ hist' = [hist EXCEPT !.started = IF hist.overlapped \/ InFlight # {}
                                           THEN <<>> ELSE Append(@, value[1]),
                                !.appends = @ + 1,
                                !.overlapped = @ \/ InFlight # {}]
  /\ now' = now + 1
  /\ UNCHANGED <<storage, inst, norm, page>>

\* storage.set replaces every stored key, not only generationLog
StoreAddWriteAll(c) ==
  /\ calls[c].pc = "set"
  /\ storage' = InitStorage("", calls[c].log)
  /\ calls' = [calls EXCEPT ![c] = IdleCall]
  /\ UNCHANGED <<now, inst, norm, hist, page>>

\* the entry is put in front of the log as it is stored at the time of the write
StoreAddWriteFresh(c) ==
  /\ calls[c].pc = "set"
  /\ storage' = [storage EXCEPT !.generationLog =
                   AddLogValue(@, calls[c].log[1], calls[c].log[1].timestamp)]
  /\ calls' = [calls EXCEPT ![c] = IdleCall]
  /\ UNCHANGED <<now, inst, norm, hist, page>>

\* addLogEntry: storage.set stores the value and the call resolves
StoreAddWrite(c) ==
  /\ calls[c].pc = "set"
  /\ storage' = [storage EXCEPT !.generationLog = calls[c].log]
  /\ calls' = [calls EXCEPT ![c] = IdleCall]
  /\ UNCHANGED <<now, inst, norm, hist, page>>

\* clearLog()
StoreClear(c) ==
  /\ calls[c].pc = "idle"
  /\ hist.clears < MaxClears
  /\ storage' = [storage EXCEPT !.generationLog = <<>>]
  /\ hist' = [hist EXCEPT !.clears = @ + 1, !.started = <<>>, !.initial = <<>>,
                          !.overlapped = @ \/ InFlight # {},
                          !.cleared = @ \cup {storage.generationLog[k] :
                                                k \in 1..Len(storage.generationLog)}]
  /\ UNCHANGED <<now, inst, norm, calls, page>>

(***************************************************************************)
(* The store's operations called one after the other by one caller: an     *)
(* operation and its argument are chosen, performed, and performed again.  *)
(***************************************************************************)
\* saveSettings(updates): the updates merged into the stored settings, the
\* metadata stamped
saveSettings(st, updates, time) ==
  [st EXCEPT !.settings = [k \in DOMAIN @ |->
                             IF k \in DOMAIN updates THEN updates[k] ELSE @[k]],
             !.metadata = [@ EXCEPT !.lastUpdated = time, !.version = "1.0.0"]]

\* addLogEntry(entry), its read and its write with nothing in between
addLogEntry(st, entry, time) ==
  [st EXCEPT !.generationLog = AddLogValue(@, entry, time)]

getLog(st) == st.generationLog

clearLog(st) == [st EXCEPT !.generationLog = <<>>]

SettingsUpdates ==
  {[customPrompt |-> <<"Describe the chart.">>],
   [maxTokens |-> 256],
   [customPrompt |-> <<>>, maxTokens |-> 2048, model |-> "gpt-5-mini"]}

RetriedEntries ==
  {ErrorEntry(<<"https:", "retried">>, <<"failed">>),
   [ErrorEntry(<<"https:", "retried">>, <<"failed">>) EXCEPT !.timestamp = 1],
   SuccessEntry(<<"https:", "retried">>,
                generateAltText(<<"data:">>, [apiKey |-> "sk-test"], RespStop))}

RetriedOps ==
  {[op |-> "getSettings", arg |-> <<>>], [op |-> "getLog", arg |-> <<>>],
   [op |-> "clearLog", arg |-> <<>>]}
  \cup {[op |-> "saveSettings", arg |-> u] : u \in SettingsUpdates}
  \cup {[op |-> "addLogEntry", arg |-> e] : e \in RetriedEntries}

\* stores a retried operation may find: with or without a key and custom
\* settings, the log short, one below the cap, or at the cap
RetriedStores ==
  {[InitStorage(k, OldEntries(n)) EXCEPT !.settings = b] :
     k \in {"", "sk-test"},
     n \in (0..MaxInitialLog) \cup {MAX_LOG_ENTRIES - 1, MAX_LOG_ENTRIES},
     b \in {DefaultSettingsBundle,
            [customPrompt |-> <<"One sentence.">>, maxTokens |-> 512, model |-> ""]}}

\* the call is made (for the first or the second time) and resolves
Performed(st) ==
  /\ storage' = st
  /\ now' = now + 1
  /\ hist' = IF calls.done = 0 THEN [hist EXCEPT !.once = st] ELSE hist
  /\ UNCHANGED <<inst, norm, page>>

RetryGetSettings ==
  /\ calls.op = "getSettings" /\ calls.done < 2
  /\ calls' = [calls EXCEPT !.done = @ + 1, !.results = Append(@, getSettings(storage))]
  /\ Performed(storage)

RetryGetLog ==
  /\ calls.op = "getLog" /\ calls.done < 2
  /\ calls' = [calls EXCEPT !.done = @ + 1, !.results = Append(@, getLog(storage))]
  /\ Performed(storage)

RetryClearLog ==
  /\ calls.op = "clearLog" /\ calls.done < 2
  /\ calls' = [calls EXCEPT !.done = @ + 1]
  /\ Performed(clearLog(storage))

RetrySaveSettings ==
  /\ calls.op = "saveSettings" /\ calls.done < 2
  /\ calls' = [calls EXCEPT !.done = @ + 1]
  /\ Performed(saveSettings(storage, calls.arg, now))

RetryAddLogEntry ==
  /\ calls.op = "addLogEntry" /\ calls.done < 2
  /\ calls' = [calls EXCEPT !.done = @ + 1]
  /\ Performed(addLogEntry(storage, calls.arg, now))

(***************************************************************************)
(* The captioning client called on its own: one call of generateAltText    *)
(* with one answer of the API.                                             *)
(***************************************************************************)
ClientStatuses == {200, 400, 401, 429, 500, 502}

\* the answers of the chat completions endpoint: a rejected fetch, or a
\* status with a body that is JSON (with or without error.message, with or
\* without content) or is not JSON
ClientResponses ==
  {RespReject}
  \cup {Resp("ok", st, json, error, content, finish, Usage(120, 5)) :
          st \in ClientStatuses, json \in BOOLEAN,
          error \in {<<>>, <<"Rate limit reached.">>},
          content \in {NoContent, StringContent(<<"A red bicycle.">>),
                       ArrayContent(<<[type |-> "text", text |-> <<"A red">>],
                                      [type |-> "refusal", text |-> <<"no">>],
                                      [type |-> "text", text |-> <<" bicycle.">>]>>)},
          finish \in {"stop", "length"}}

ClientSettings ==
  {[getSettings(InitStorage(k, <<>>)) EXCEPT !.customPrompt = c] :
     k \in {"", "sk-test"}, c \in {<<>>, <<"One sentence.">>}}

SomeDataUrl == <<"data:image/jpeg;base64,", "sw", <<"https:", "//a.example/photo.png">>, 300, 120>>

\* generateAltText(base64DataUrl, settings) runs to its end
RunGenerateAltText ==
  /\ calls.pc = "called"
  /\ calls' = [calls EXCEPT !.pc = "settled",
                            !.res = generateAltText(SomeDataUrl, calls.settings, calls.resp)]
  /\ UNCHANGED <<storage, now, inst, norm, hist, page>>

(***************************************************************************)
(* The content script in one page: injections, signals of the service      *)
(* worker and the user's close actions, in any order.  hist lists what has *)
(* happened to the page.                                                   *)
(***************************************************************************)
MaxPageEvents == 4

PageSignals ==
  {ShowLoading,
   ShowResult(<<"A red bicycle.">>, SrcPlain.url, Usage(120, 5), calculateCost(Usage(120, 5))),
   ShowError(CouldNotLoad \o FetchRejected, <<>>),
   ShowError(NoKeyClick, OptionsUrl),
   FetchImage(SrcCors.url)}

Happened(kind, what) ==
  /\ Len(hist) < MaxPageEvents
  /\ hist' = Append(hist, [k |-> kind, v |-> what])
  /\ UNCHANGED <<storage, now, inst, norm, calls>>

\* chrome.scripting.executeScript runs content-script.js in the page
PageInjected ==
  /\ page' = InjectContentScript(page)
  /\ Happened("inject", <<>>)

\* a message of the service worker is sent to the tab
PageSignalled ==
  \E m \in PageSignals :
    /\ page' = Delivered(page, m)
    /\ Happened("signal", m)

\* a click on the close button of the header, on the Close button of the
\* view, or on the backdrop of an attached overlay
PageClicked ==
  \E o \in page.overlays, target \in {"close-x", "Close", "backdrop"} :
    /\ target = "Close" => "Close" \in o.view.actions
    /\ page' = removeModal(page)
    /\ Happened("click", target)

\* the Escape key: every keydown handler on the document runs
PageEscaped ==
  /\ page' = IF page.escHandlers # {} THEN removeModal(page) ELSE page
  /\ Happened("keydown", "Escape")

(***************************************************************************)
(* calculateCost called on its own with one usage record.                  *)
(***************************************************************************)
MaxPromptTokens     == 30
MaxCompletionTokens == 8

\* usage records of the API: the three counts, or some of them missing
UsageRecords ==
  {[prompt_tokens |-> p, completion_tokens |-> c, total_tokens |-> p + c] :
     p \in 0..MaxPromptTokens, c \in 0..MaxCompletionTokens}
  \cup {[prompt_tokens |-> p] : p \in 0..MaxPromptTokens}
  \cup {[completion_tokens |-> c, total_tokens |-> c] : c \in 0..MaxCompletionTokens}
  \cup {<<>>}

\* calculateCost(usage) returns
RunCalculateCost ==
  /\ calls.pc = "called"
  /\ calls' = [calls EXCEPT !.pc = "returned", !.res = calculateCost(calls.usage)]
  /\ UNCHANGED <<storage, now, inst, norm, hist, page>>

StoredKeys == {"", "sk-test"}

(***************************************************************************)
(* The service worker's chrome.runtime.onMessage listener answering one    *)
(* request of a sender (content script, popup, options page).              *)
(***************************************************************************)
KeyStatuses == {200, 204, 401, 403, 429, 500}

\* what the models endpoint may do: no response at all, or a status
ModelsAnswers ==
  {[net |-> "reject", status |-> 0, error |-> m] : m \in {<<"Failed to fetch">>, <<>>}}
  \cup {[net |-> "ok", status |-> st, error |-> <<>>] : st \in KeyStatuses}

KeyInputs ==
  {UndefinedValue, NumberValue(0), NumberValue(42),
   StringValue(<<>>), StringValue(<<" ">>), StringValue(<<"sk-test">>),
   StringValue(<<" ", "sk-test", " ">>), StringValue(<<"sk-revoked">>)}

Request(type, apiKey, src) == [type |-> type, apiKey |-> apiKey, src |-> src]

WorkerCalls ==
  {[request |-> Request("EVERYALT_VALIDATE_KEY", k, NoSource), net |-> a, plat |-> AllOk] :
     k \in KeyInputs, a \in ModelsAnswers}
  \cup {[request |-> Request(type, UndefinedValue, NoSource),
         net |-> CHOOSE a \in ModelsAnswers : a.status = 200, plat |-> AllOk] :
          type \in {"EVERYALT_GET_SETTINGS", "EVERYALT_GET_LOG", "EVERYALT_CLEAR_LOG"}}
  \cup {[request |-> Request("EVERYALT_FETCH_BASE64", UndefinedValue, s),
         net |-> CHOOSE a \in ModelsAnswers : a.status = 200, plat |-> p] :
          s \in PipelineSources, p \in PipelinePlatforms}

WorkerStores == {InitStorage(k, OldEntries(n)) : k \in StoredKeys, n \in {0, MaxInitialLog}}

NoResponse == [kind |-> "none"]

\* sendResponse(value) is called; outgoing is the request put on the network
Responded(kind, value, outgoing) ==
  calls' = [calls EXCEPT !.pc = "responded", !.outgoing = outgoing,
                         !.response = [kind |-> kind, value |-> value]]

\* the channel is kept open and sendResponse is never called
Silent(outgoing) == calls' = [calls EXCEPT !.pc = "silent", !.outgoing = outgoing]

\* EVERYALT_VALIDATE_KEY: validateApiKey(request.apiKey).then(sendResponse)
OnValidateKey ==
  /\ calls.pc = "received" /\ calls.request.type = "EVERYALT_VALIDATE_KEY"
  /\ LET r == validateApiKey(calls.request.apiKey, calls.net) IN
     IF r.settled = "resolved"
     THEN Responded("validation", [valid |-> r.valid, message |-> r.message], r.request)
     ELSE Silent(r.request)
  /\ UNCHANGED <<storage, now, inst, norm, hist, page>>

\* EVERYALT_GET_SETTINGS: getSettings().then(sendResponse)
OnGetSettings ==
  /\ calls.pc = "received" /\ calls.request.type = "EVERYALT_GET_SETTINGS"
  /\ Responded("settings", getSettings(storage), NoRequest)
  /\ UNCHANGED <<storage, now, inst, norm, hist, page>>

\* EVERYALT_GET_LOG: getLog().then(sendResponse)
OnGetLog ==
  /\ calls.pc = "received" /\ calls.request.type = "EVERYALT_GET_LOG"
  /\ Responded("log", getLog(storage), NoRequest)
  /\ UNCHANGED <<storage, now, inst, norm, hist, page>>

\* EVERYALT_CLEAR_LOG: clearLog().then(sendResponse)
OnClearLog ==
  /\ calls.pc = "received" /\ calls.request.type = "EVERYALT_CLEAR_LOG"
  /\ storage' = clearLog(storage)
  /\ Responded("undefined", <<>>, NoRequest)
  /\ UNCHANGED <<now, inst, norm, hist, page>>

\* EVERYALT_FETCH_BASE64: imageUrlToBase64(request.imageUrl), then or catch
OnFetchBase64 ==
  /\ calls.pc = "received" /\ calls.request.type = "EVERYALT_FETCH_BASE64"
  /\ LET r == imageUrlToBase64(calls.request.src, calls.plat) IN
     Responded("base64", [success |-> r.ok, data |-> r.data, error |-> r.err], NoRequest)
  /\ UNCHANGED <<storage, now, inst, norm, hist, page>>

Init ==
  /\ storage \in {InitStorage(k, <<>>) : k \in StoredKeys}
  /\ now = 1
  /\ inst = [i \in Instances |-> IdleInstance]
  /\ norm = NoNorm
  /\ calls = NoCalls
  /\ hist = NoHist
  /\ page = NoPage

Next ==
  \E i \in Instances :
    \/ Click(i)
    \/ ContentScriptEnsured(i)
    \/ Regenerate(i)
    \/ SettingsRead(i)
    \/ PrivilegedDone(i)
    \/ FallbackDone(i)
    \/ CaptionDone(i)
    \/ LogRead(i)
    \/ LogWrite(i)
    \/ Signal(i)

Spec == Init /\ [][Next]_vars

InitNorm ==
  /\ storage = InitStorage("sk-test", <<>>)
  /\ now = 1
  /\ inst = [i \in Instances |-> IdleInstance]
  /\ norm \in {[ctx |-> ctx, pc |-> "called", src |-> r.src, plat |-> r.plat,
                res |-> Thrown(<<>>, <<>>)] : ctx \in {"sw", "page"}, r \in NormRuns}
  /\ calls = NoCalls
  /\ hist = NoHist
  /\ page = NoPage

NextNorm == RunPrivileged \/ RunPageContext

SpecNorm == InitNorm /\ [][NextNorm]_vars

InitStore ==
  /\ \E n \in 0..MaxInitialLog :
       /\ storage = InitStorage("sk-test", OldEntries(n))
       /\ hist = [NoHist EXCEPT !.initial = OldEntries(n)]
  /\ now = MaxInitialLog + 1
  /\ inst = [i \in Instances |-> IdleInstance]
  /\ norm = NoNorm
  /\ calls = NoCalls
  /\ page = NoPage

NextStore ==
  \E c \in Callers :
    \/ StoreAddRead(c)
    \/ StoreAddWrite(c)
    \/ StoreClear(c)

SpecStore == InitStore /\ [][NextStore]_vars

InitRetry ==
  /\ storage \in RetriedStores
  /\ now = MAX_LOG_ENTRIES + 1
  /\ inst = [i \in Instances |-> IdleInstance]
  /\ norm = NoNorm
  /\ calls \in {[op |-> r.op, arg |-> r.arg, done |-> 0, results |-> <<>>] : r \in RetriedOps}
  /\ hist = [before |-> storage, once |-> storage]
  /\ page = NoPage

NextRetry ==
  \/ RetryGetSettings
  \/ RetryGetLog
  \/ RetryClearLog
  \/ RetrySaveSettings
  \/ RetryAddLogEntry

SpecRetry == InitRetry /\ [][NextRetry]_vars

InitClient ==
  /\ storage = InitStorage("sk-test", <<>>)
  /\ now = 1
  /\ inst = [i \in Instances |-> IdleInstance]
  /\ norm = NoNorm
  /\ calls \in {[pc |-> "called", settings |-> st, resp |-> r, res |-> NoResult] :
                  st \in ClientSettings, r \in ClientResponses}
  /\ hist = NoHist
  /\ page = NoPage

NextClient == RunGenerateAltText

SpecClient == InitClient /\ [][NextClient]_vars

(***************************************************************************)
(* The pipelines under fairness: every call an instance awaits returns or  *)
(* fails.  A fetch, an injection or a tab message that fails is one of the *)
(* outcomes of the steps above; a storage read that fails is the step      *)
(* below.                                                                  *)
(***************************************************************************)
NumLive == 1
LiveInstances == 1..NumLive

\* chrome.storage.local.get fails: the callback runs with runtime.lastError
\* set and without items, reading result.settings or result.generationLog
\* throws inside the callback, and the promise of getSettings or of
\* addLogEntry is never settled
StorageGetFails(i) ==
  /\ inst[i].pc \in {"settings", "logGet"}
  /\ inst' = [inst EXCEPT ![i].pc = "hung",
                          ![i].trace = Append(@, Ev("storage.get", "failed"))]
  /\ UNCHANGED <<storage, now, norm, calls, hist, page>>

\* what an instance does once it is triggered
LiveStep(i) ==
  \/ ContentScriptEnsured(i)
  \/ SettingsRead(i)
  \/ PrivilegedDone(i)
  \/ FallbackDone(i)
  \/ CaptionDone(i)
  \/ LogRead(i)
  \/ LogWrite(i)
  \/ Signal(i)
  \/ StorageGetFails(i)

NextLive ==
  \E i \in LiveInstances :
    \/ Click(i)
    \/ Regenerate(i)
    \/ LiveStep(i)

SpecLive == Init /\ [][NextLive]_vars /\ \A i \in LiveInstances : WF_vars(LiveStep(i))

InitPage ==
  /\ storage = InitStorage("sk-test", <<>>)
  /\ now = 1
  /\ inst = [i \in Instances |-> IdleInstance]
  /\ norm = NoNorm
  /\ calls = NoCalls
  /\ hist = <<>>
  /\ page = NoPage

NextPage ==
  \/ PageInjected
  \/ PageSignalled
  \/ PageClicked
  \/ PageEscaped

SpecPage == InitPage /\ [][NextPage]_vars

(***************************************************************************)
(* The options page (src/options.js): the Save button is clicked with the  *)
(* form filled in, the new key (if any) is validated through the service   *)
(* worker, then the key and the settings are stored.                       *)
(***************************************************************************)
MaxSaves == 2

DEFAULT_MAX_TOKENS == 1024
MAX_TOKENS_LIMIT   == 4096

NaN == [nan |-> TRUE, n |-> 0]
Num(n) == [nan |-> FALSE, n |-> n]

\* Math.max(1, Math.min(4096, parseInt(value, 10) || DEFAULT_MAX_TOKENS)),
\* parsed being what parseInt returns
ClampTokens(parsed) ==
  LET wanted == IF parsed.nan \/ parsed.n = 0 THEN DEFAULT_MAX_TOKENS ELSE parsed.n
  IN Max(1, Min(MAX_TOKENS_LIMIT, wanted))

\* a key as it is stored and sent: the one token of the trimmed input
KeyString(text) == IF text = <<>> THEN "" ELSE text[1]

\* what is in the form when Save is clicked
Forms ==
  {[apiKey |-> k, customPrompt |-> c, maxTokens |-> t] :
     k \in {<<>>, <<" ">>, <<"sk-new">>, <<" ", "sk-new", " ">>},
     c \in {<<" ">>, <<"Describe the chart.", " ">>},
     t \in {NaN, Num(256), Num(5000)}}

\* what the sendMessage callback of the options page receives: the worker's
\* answer to EVERYALT_VALIDATE_KEY, or undefined when no answer comes
ValidationReplies(newKey) ==
  {[defined |-> FALSE, valid |-> FALSE, message |-> <<>>]}
  \cup {LET r == validateApiKey(StringValue(newKey), a)
        IN [defined |-> TRUE, valid |-> r.valid, message |-> r.message] :
          a \in ModelsAnswers}

NoForm == [apiKey |-> <<>>, customPrompt |-> <<>>, maxTokens |-> NaN]
OptionsIdle == [pc |-> "idle", form |-> NoForm, newKey |-> <<>>,
                status |-> <<>>]

\* the click handler up to its first await
SaveClicked ==
  /\ calls.pc \in {"idle", "failed", "saved"}
  /\ hist.saves < MaxSaves
  /\ \E f \in Forms :
       calls' = [pc |-> IF Trim(f.apiKey) # <<>> THEN "validating" ELSE "settings",
                 form |-> f, newKey |-> Trim(f.apiKey), status |-> <<>>]
  /\ hist' = [hist EXCEPT !.before = storage, !.saves = @ + 1,
                         !.refused = FALSE]
  /\ UNCHANGED <<storage, now, inst, norm, page>>

\* the validation is answered and the handler goes on whatever the answer
ValidationAnsweredNoReturn ==
  /\ calls.pc = "validating"
  /\ \E v \in ValidationReplies(calls.newKey) :
       IF ~v.defined \/ ~v.valid
       THEN /\ calls' = [calls EXCEPT !.pc = "settings"]
            /\ hist' = [hist EXCEPT !.refused = TRUE]
            /\ UNCHANGED storage
       ELSE /\ storage' = [storage EXCEPT !.apiKey = KeyString(calls.newKey),
                                          !.apiKeyValidated = TRUE]
            /\ calls' = [calls EXCEPT !.pc = "settings"]
            /\ hist' = [hist EXCEPT !.validated = @ \cup {KeyString(calls.newKey)}]
  /\ UNCHANGED <<now, inst, norm, page>>

\* the validation is answered: the handler returns, or stores the key
ValidationAnswered ==
  /\ calls.pc = "validating"
  /\ \E v \in ValidationReplies(calls.newKey) :
       IF ~v.defined \/ ~v.valid
       THEN /\ calls' = [calls EXCEPT !.pc = "failed",
                           !.status = <<"Key validation failed. Settings not saved.">>]
            /\ hist' = [hist EXCEPT !.refused = TRUE]
            /\ UNCHANGED storage
       ELSE /\ storage' = [storage EXCEPT !.apiKey = KeyString(calls.newKey),
                                          !.apiKeyValidated = TRUE]
            /\ calls' = [calls EXCEPT !.pc = "settings"]
            /\ hist' = [hist EXCEPT !.validated = @ \cup {KeyString(calls.newKey)}]
  /\ UNCHANGED <<now, inst, norm, page>>

\* the settings and the metadata are read, merged and stored
SettingsSaved ==
  /\ calls.pc = "settings"
  /\ storage' = [storage EXCEPT
        !.settings = [@ EXCEPT !.customPrompt = Trim(calls.form.customPrompt),
                               !.maxTokens = ClampTokens(calls.form.maxTokens)],
        !.metadata = [@ EXCEPT !.lastUpdated = now, !.version = "1.0.0"]]
  /\ calls' = [calls EXCEPT !.pc = "saved", !.status = <<"Settings saved!">>]
  /\ now' = now + 1
  /\ UNCHANGED <<inst, norm, hist, page>>

InitOptions ==
  /\ storage \in {InitStorage(k, <<>>) : k \in StoredKeys}
  /\ now = 1
  /\ inst = [i \in Instances |-> IdleInstance]
  /\ norm = NoNorm
  /\ calls = OptionsIdle
  /\ hist = [before |-> storage, saves |-> 0, refused |-> FALSE,
             validated |-> IF storage.apiKeyValidated THEN {storage.apiKey} ELSE {}]
  /\ page = NoPage

NextOptions ==
  \/ SaveClicked
  \/ ValidationAnswered
  \/ SettingsSaved

SpecOptions == InitOptions /\ [][NextOptions]_vars

InitCost ==
  /\ storage = InitStorage("sk-test", <<>>)
  /\ now = 1
  /\ inst = [i \in Instances |-> IdleInstance]
  /\ norm = NoNorm
  /\ calls \in {[pc |-> "called", usage |-> u, res |-> calculateCost(<<>>)] : u \in UsageRecords}
  /\ hist = NoHist
  /\ page = NoPage

NextCost == RunCalculateCost

SpecCost == InitCost /\ [][NextCost]_vars

InitWorker ==
  /\ storage \in WorkerStores
  /\ now = MaxInitialLog + 1
  /\ inst = [i \in Instances |-> IdleInstance]
  /\ norm = NoNorm
  /\ calls \in {[pc |-> "received", request |-> c.request, net |-> c.net, plat |-> c.plat,
                 outgoing |-> NoRequest, response |-> NoResponse] : c \in WorkerCalls}
  /\ hist = [before |-> storage]
  /\ page = NoPage

NextWorker ==
  \/ OnValidateKey
  \/ OnGetSettings
  \/ OnGetLog
  \/ OnClearLog
  \/ OnFetchBase64

SpecWorker == InitWorker /\ [][NextWorker]_vars

(***************************************************************************)
(* Reading a trace.                                                        *)
(***************************************************************************)
IsSignal(e, type) == e.k = "tabs.sendMessage" /\ e.v.msg.type = type
IsTerminal(e) == IsSignal(e, "EVERYALT_SHOW_RESULT") \/ IsSignal(e, "EVERYALT_SHOW_ERROR")
IsLogWrite(e, status) == e.k = "storage.set" /\ e.v.status = status

Positions(t, type) == {j \in 1..Len(t) : IsSignal(t[j], type)}
Terminals(t) == {j \in 1..Len(t) : IsTerminal(t[j])}

\* the messages sent to the tab, in order
Sent(t) ==
  LET sel == SelectSeq(t, LAMBDA e : e.k = "tabs.sendMessage")
  IN [j \in 1..Len(sel) |-> sel[j].v.msg]

Triggered(i) == inst[i].pc \notin {"idle", "returned"}

\* sub occurs in s as a run of consecutive parts
IsInfix(sub, s) ==
  \E k \in 0..(Len(s) - Len(sub)) : SubSeq(s, k + 1, k + Len(sub)) = sub

IsPrefix(s, t) == Len(s) <= Len(t) /\ SubSeq(t, 1, Len(s)) = s

\* the error entry of instance i was stored before position j of its trace
ErrorLoggedBefore(i, j) ==
  \E k \in 1..(j - 1) :
     /\ IsLogWrite(inst[i].trace[k], "error")
     /\ inst[i].trace[k].v.imageUrl = inst[i].src.url

\* C1 as stated: whenever an instance emits show-error (after a failed
\* credential check, normalization or API call), an error entry for its image
\* has been written to the log before.
C1_ErrorLoggedBeforeEveryErrorSignal ==
  \A i \in Instances :
    \A j \in Positions(inst[i].trace, "EVERYALT_SHOW_ERROR") : ErrorLoggedBefore(i, j)

\* C1 amended: an instance that passed the credential check and fails at the
\* normalization or at the API call has written the error entry for its image
\* before it emits show-error; a failed credential check writes no entry.
C1_ErrorLoggedBeforeSignal ==
  \A i \in Instances :
    \A j \in Positions(inst[i].trace, "EVERYALT_SHOW_ERROR") :
       IF inst[i].settings.apiKey # ""
       THEN ErrorLoggedBefore(i, j)
       ELSE \A k \in 1..Len(inst[i].trace) : inst[i].trace[k].k # "storage.set"

\* one instance has failed at the normalization and one at the API call, and
\* both have signalled their error
C1_Witness ==
  \E i, j \in Instances :
     /\ inst[i].pc = "done" /\ inst[i].csErr # <<>> /\ inst[i].resp = NoResp
     /\ Positions(inst[i].trace, "EVERYALT_SHOW_ERROR") # {}
     /\ inst[j].pc = "done" /\ inst[j].resp = RespError
     /\ Positions(inst[j].trace, "EVERYALT_SHOW_ERROR") # {}

\* C2: a triggered instance emits show-loading exactly once, before anything
\* else it sends; it emits at most one terminal signal (show-result or
\* show-error), and that signal is the last thing it ever does.
C2_OneLoadingOneTerminal ==
  \A i \in Instances :
    LET t == inst[i].trace IN
    /\ Cardinality(Positions(t, "EVERYALT_SHOW_LOADING")) <= 1
    /\ (Triggered(i) /\ inst[i].pc # "inject") =>
          /\ Cardinality(Positions(t, "EVERYALT_SHOW_LOADING")) = 1
          /\ Sent(t)[1] = ShowLoading
    /\ Cardinality(Terminals(t)) <= 1
    /\ \A j \in Terminals(t) : j = Len(t) /\ inst[i].pc = "done"
    /\ inst[i].pc = "done" => Cardinality(Terminals(t)) = 1

\* one instance has ended with show-result and another with show-error
C2_Witness ==
  \E i, j \in Instances :
     /\ inst[i].pc = "done" /\ Positions(inst[i].trace, "EVERYALT_SHOW_RESULT") # {}
     /\ inst[j].pc = "done" /\ Positions(inst[j].trace, "EVERYALT_SHOW_ERROR") # {}

\* what a click instance does when no credential is stored
NoKeyClickTrace(tab) ==
  <<Ev("scripting.executeScript", tab),
    Ev("tabs.sendMessage", [tab |-> tab, msg |-> ShowLoading]),
    Ev("storage.get", "settings"),
    Ev("tabs.sendMessage", [tab |-> tab, msg |-> ShowError(NoKeyClick, OptionsUrl)])>>

\* C3: with no credential stored, a click instance sends show-loading and then
\* show-error with the configuration message and nothing else: no success
\* entry is written, no image is fetched, no delegation and no API request is
\* sent.
C3_NoCredentialClick ==
  \A i \in Instances :
    (storage.apiKey = "" /\ inst[i].kind = "click" /\ Triggered(i)) =>
       LET t == inst[i].trace IN
       /\ IsPrefix(t, NoKeyClickTrace(inst[i].tabId))
       /\ inst[i].pc = "done" => Sent(t) = <<ShowLoading, ShowError(NoKeyClick, OptionsUrl)>>
       /\ \A j \in 1..Len(t) :
            /\ ~IsLogWrite(t[j], "success")
            /\ t[j].k \notin {"imageUrlToBase64", "requestBase64FromContentScript",
                              "generateAltText"}
            /\ ~IsSignal(t[j], "EVERYALT_FETCH_IMAGE")

\* a click instance has run to its end without a stored credential
C3_Witness ==
  \E i \in Instances :
     /\ storage.apiKey = "" /\ inst[i].kind = "click" /\ inst[i].pc = "done"
     /\ Len(Sent(inst[i].trace)) = 2

\* C4: the fetch-image request is sent only after imageUrlToBase64 has failed
\* in the service worker; when it succeeds, no request is sent and its data
\* URL is the one handed to generateAltText.
C4_FallbackOnlyAfterPrivilegedFailure ==
  \A i \in Instances :
    LET t == inst[i].trace IN
    /\ \A j \in Positions(t, "EVERYALT_FETCH_IMAGE") :
          \E k \in 1..(j - 1) : t[k].k = "imageUrlToBase64" /\ ~t[k].v.ok
    /\ \A k \in 1..Len(t) :
          (t[k].k = "imageUrlToBase64" /\ t[k].v.ok) =>
             /\ Positions(t, "EVERYALT_FETCH_IMAGE") = {}
             /\ \A m \in 1..Len(t) :
                   t[m].k = "generateAltText" =>
                      /\ m > k
                      /\ t[m].v.url = t[k].v.data
                      /\ t[m].v.url = imageUrlToBase64(inst[i].src, AllOk).data

\* one instance captioned the service worker's data URL, another one a data
\* URL it got from the content script after the service worker had failed
C4_Witness ==
  \E i, j \in Instances :
     /\ \E m \in 1..Len(inst[i].trace) :
           /\ inst[i].trace[m].k = "generateAltText"
           /\ inst[i].trace[m].v.url[2] = "sw"
     /\ \E m \in 1..Len(inst[j].trace) :
           /\ inst[j].trace[m].k = "generateAltText"
           /\ inst[j].trace[m].v.url[2] = "page"

\* the settled results of the two normalization attempts of instance i
PrivResults(i) ==
  {inst[i].trace[k].v : k \in {k \in 1..Len(inst[i].trace) :
                                  inst[i].trace[k].k = "imageUrlToBase64"}}
PageResults(i) ==
  {inst[i].trace[k].v : k \in {k \in 1..Len(inst[i].trace) :
                                  inst[i].trace[k].k = "requestBase64FromContentScript"}}

LoggedErrors(i) ==
  {inst[i].trace[k].v.error : k \in {k \in 1..Len(inst[i].trace) :
                                        IsLogWrite(inst[i].trace[k], "error")}}
SignalledErrors(i) ==
  {inst[i].trace[k].v.msg.message :
     k \in Positions(inst[i].trace, "EVERYALT_SHOW_ERROR")}

\* C5 as stated: when both normalizations fail, the error that is logged and
\* signalled contains the privileged path's message and the fallback's message.
C5_BothMessagesCombined ==
  \A i \in Instances : \A rp \in PrivResults(i), rc \in PageResults(i) :
    (~rp.ok /\ ~rc.ok) =>
      \A m \in LoggedErrors(i) \cup SignalledErrors(i) :
         IsInfix(rp.err, m) /\ IsInfix(rc.err, m)

\* C5 amended: when both normalizations fail, the error that is logged and
\* signalled carries one of the two messages only: a click pipeline reports
\* "Could not load image: " followed by the fallback's message, or by the
\* privileged path's message when the fallback's message is empty; a
\* regenerate pipeline reports the fallback's error as it is (the default
\* text when its message is empty).
C5_FallbackMessageReported ==
  \A i \in Instances : \A rp \in PrivResults(i), rc \in PageResults(i) :
    (~rp.ok /\ ~rc.ok) =>
      LET fe == rp.err
          ce == rc.err
      IN
      /\ inst[i].pc \in {"logGet", "logSet", "signal", "done"}
      /\ inst[i].entry.status = "error"
      /\ IF inst[i].kind = "click"
         THEN LET m == CouldNotLoad \o (IF ce # <<>> THEN ce ELSE fe) IN
              /\ inst[i].entry.error = m
              /\ LoggedErrors(i) \subseteq {m}
              /\ SignalledErrors(i) \subseteq {m}
         ELSE /\ inst[i].entry.error = (IF ce # <<>> THEN ce ELSE <<"Regeneration failed">>)
              /\ LoggedErrors(i) \subseteq {inst[i].entry.error}
              /\ SignalledErrors(i) \subseteq
                   {IF ce # <<>> THEN ce ELSE <<"Regeneration failed.">>}
      /\ inst[i].pc = "done" => LoggedErrors(i) # {} /\ SignalledErrors(i) # {}

\* both attempts of instance i have failed, with messages fe and ce
BothAttemptsFailed(i, fe, ce) ==
  /\ \E r \in PrivResults(i) : ~r.ok /\ r.err = fe
  /\ \E r \in PageResults(i) : ~r.ok /\ r.err = ce

\* a click and a regenerate instance have both reported a double failure whose
\* two messages differ
C5_Witness ==
  \E i, j \in Instances :
     /\ inst[i].kind = "click" /\ inst[i].pc = "done"
     /\ BothAttemptsFailed(i, FetchStatusSW, FetchStatusPage)
     /\ inst[j].kind = "regen" /\ inst[j].pc = "done"
     /\ BothAttemptsFailed(j, FetchStatusSW, FetchStatusPage)

\* C6: a source whose content type is not an image is never captioned: no
\* request goes to the API for it and no instance succeeds with it.
C6_NonImageNeverCaptioned ==
  \A i \in Instances :
    (Triggered(i) /\ ~StartsWith(inst[i].src.type, "image/")) =>
       /\ inst[i].entry.status # "success"
       /\ \A k \in 1..Len(inst[i].trace) : inst[i].trace[k].k # "generateAltText"

\* C9: a response with finish_reason "length" never gives a success: no
\* success entry, no show-result, and the instance ends with show-error.
C9_LengthNeverSucceeds ==
  \A i \in Instances :
    inst[i].resp.finish = "length" =>
       LET t == inst[i].trace IN
       /\ ~generateAltText(inst[i].base64DataUrl, inst[i].settings, inst[i].resp).ok
       /\ inst[i].entry.status = "error"
       /\ inst[i].entry.error = CutOff
       /\ Positions(t, "EVERYALT_SHOW_RESULT") = {}
       /\ \A k \in 1..Len(t) : ~IsLogWrite(t[k], "success")
       /\ inst[i].pc = "done" => IsSignal(t[Len(t)], "EVERYALT_SHOW_ERROR")

\* an instance has ended after a 200 response that was cut off with partial text
C9_Witness ==
  \E i \in Instances :
     /\ inst[i].pc = "done" /\ inst[i].resp = RespLength
     /\ ContentText(inst[i].resp.content) # <<>>

Settled == norm.pc = "settled"
Has(events, e) == \E k \in 1..Len(events) : events[k] = e
TooLarge(ctx) == IF ctx = "sw" THEN TooLargeSW ELSE TooLargePage

\* C7 as stated: in both normalizers a fetched source of more than 20 MB is
\* rejected with the too-large error, and createImageBitmap is never invoked
\* on it.
C7_OversizeRejectedAsTooLarge ==
  (Settled /\ Has(norm.res.ev, "blob") /\ norm.src.size > MAX_SIZE) =>
     /\ ~norm.res.ok
     /\ norm.res.err = TooLarge(norm.ctx)
     /\ ~Has(norm.res.ev, "createImageBitmap")

\* C7 amended: in both normalizers a source of more than 20 MB is rejected
\* before createImageBitmap is invoked, whether or not it would decode; the
\* error of a fetched source is the too-large error, except in the service
\* worker when the blob's type is not an image: there the type check comes
\* first and its error is thrown.
C7_OversizeRejectedBeforeDecode ==
  (Settled /\ norm.src.size > MAX_SIZE) =>
     /\ ~norm.res.ok
     /\ ~Has(norm.res.ev, "createImageBitmap")
     /\ Has(norm.res.ev, "blob") =>
          norm.res.err = (IF norm.ctx = "sw" /\ ~StartsWith(norm.src.type, "image/")
                          THEN NotAnImage(norm.src.type) ELSE TooLarge(norm.ctx))

\* a decodable image of more than 20 MB has been rejected as too large
C7_Witness ==
  /\ Settled /\ norm.src.size = MAX_SIZE + 1 /\ norm.src.decodable
  /\ norm.plat = AllOk /\ norm.res.err = TooLarge(norm.ctx)

\* n / d rounded to the nearest integer, halves up
RoundedQuotient(n, d) == (2 * n + d) \div (2 * d)

CanvasCreated == Settled /\ Has(norm.res.ev, "OffscreenCanvas")

\* C8 as stated: a source within 300 x 300 keeps its size; otherwise the
\* larger side becomes 300 and the smaller round(300 * min / max).
C8_DimensionsAreRounded ==
  CanvasCreated =>
    LET w == norm.src.width
        h == norm.src.height
    IN IF Max(w, h) <= MAX_DIMENSION
       THEN norm.res.w = w /\ norm.res.h = h
       ELSE /\ norm.res.w = (IF w >= h THEN MAX_DIMENSION
                             ELSE RoundedQuotient(MAX_DIMENSION * w, h))
            /\ norm.res.h = (IF h >= w THEN MAX_DIMENSION
                             ELSE RoundedQuotient(MAX_DIMENSION * h, w))
            /\ norm.res.w <= MAX_DIMENSION /\ norm.res.h <= MAX_DIMENSION

\* the distance of s from 300 * mn / mx is at most one half
NearestTo(s, mn, mx) ==
  LET diff == mx * s - MAX_DIMENSION * mn IN
  2 * (IF diff >= 0 THEN diff ELSE -diff) <= mx

\* 300 * mn / mx lies exactly between two integers
ExactHalf(mn, mx) ==
  (2 * MAX_DIMENSION * mn) % mx = 0 /\ ((2 * MAX_DIMENSION * mn) \div mx) % 2 = 1

\* C8 amended: a source within 300 x 300 keeps its size; otherwise the larger
\* side becomes 300 and the smaller an integer nearest to 300 * min / max:
\* round(300 * min / max), except that a quotient lying exactly between two
\* integers may be rounded down as well as up (the code multiplies by the
\* double 300 / max). Neither side exceeds 300.
C8_DimensionsAreNearest ==
  CanvasCreated =>
    LET w  == norm.src.width
        h  == norm.src.height
        mx == Max(w, h)
        mn == Min(w, h)
        lg == IF w >= h THEN norm.res.w ELSE norm.res.h
        sm == IF w >= h THEN norm.res.h ELSE norm.res.w
    IN IF mx <= MAX_DIMENSION
       THEN norm.res.w = w /\ norm.res.h = h
       ELSE /\ lg = MAX_DIMENSION
            /\ NearestTo(sm, mn, mx)
            /\ ~ExactHalf(mn, mx) => sm = RoundedQuotient(MAX_DIMENSION * mn, mx)
            /\ (w = h) => norm.res.w = norm.res.h
            /\ norm.res.w <= MAX_DIMENSION /\ norm.res.h <= MAX_DIMENSION

\* an image whose scaled smaller side lies exactly between two integers has
\* been scaled, and the half was rounded down
C8_Witness ==
  /\ CanvasCreated /\ norm.res.ok
  /\ norm.src.width > MAX_DIMENSION /\ norm.src.height < norm.src.width
  /\ ExactHalf(norm.src.height, norm.src.width)
  /\ norm.res.h < RoundedQuotient(MAX_DIMENSION * norm.src.height, norm.src.width)

RECURSIVE Reverse(_)
Reverse(s) == IF s = <<>> THEN <<>> ELSE Reverse(Tail(s)) \o <<Head(s)>>

FirstN(s, n) == SubSeq(s, 1, Min(Len(s), n))

\* C10: after addLogEntry calls that did not overlap, the stored log is the
\* appended entries, newest first, followed by the entries stored before,
\* cut to its first 10 elements.
C10_SequentialAppends ==
  (~hist.overlapped /\ InFlight = {}) =>
     /\ storage.generationLog = FirstN(Reverse(hist.started) \o hist.initial, 10)
     /\ Len(hist.started) >= 10 => storage.generationLog = FirstN(Reverse(hist.started), 10)

\* eleven entries have been appended one after another to a log that held
\* entries before, and the ten most recent are stored
C10_Witness ==
  /\ ~hist.overlapped /\ InFlight = {} /\ hist.clears = 0
  /\ Len(hist.started) = 11 /\ hist.initial # <<>>
  /\ Len(storage.generationLog) = 10
  /\ storage.generationLog[1] = hist.started[11]
  /\ storage.generationLog[10] = hist.started[2]

\* C11: under every interleaving of addLogEntry calls (those of concurrent
\* pipelines included) and clearLog calls, the stored log never holds more than
\* 10 entries, and no call ever hands more than 10 entries to storage.set.
C11_LogNeverExceedsCap ==
  /\ Len(storage.generationLog) <= MAX_LOG_ENTRIES
  /\ \A c \in Callers : Len(calls[c].log) <= MAX_LOG_ENTRIES

\* overlapping appends have filled a log that held entries before: the ten
\* entries stored are all new, the old ones were cut off
C11_Witness ==
  /\ hist.overlapped /\ InFlight = {} /\ hist.appends = MaxAppends
  /\ Len(storage.generationLog) = MAX_LOG_ENTRIES
  /\ storage.generationLog[MAX_LOG_ENTRIES].imageUrl[2] = "new"

\* C12: every show-result signal of an instance comes after the instance's
\* storage.set of a success entry, and carries the altText, the cost, the usage
\* and the image URL of that entry; an instance that ended in success has sent
\* the signal.
C12_SuccessLoggedBeforeResult ==
  \A i \in Instances :
    LET t == inst[i].trace IN
    /\ \A j \in Positions(t, "EVERYALT_SHOW_RESULT") :
          \E k \in 1..(j - 1) :
             /\ IsLogWrite(t[k], "success")
             /\ t[k].v.altText = t[j].v.msg.altText
             /\ t[k].v.cost = t[j].v.msg.cost
             /\ t[k].v.usage = t[j].v.msg.usage
             /\ t[k].v.imageUrl = t[j].v.msg.imageUrl
    /\ (inst[i].pc = "done" /\ inst[i].entry.status = "success") =>
          IsSignal(t[Len(t)], "EVERYALT_SHOW_RESULT")

\* a click and a regenerate instance have both ended in success, with a
\* caption and a cost
C12_Witness ==
  \E i, j \in Instances :
     /\ inst[i].kind = "click" /\ inst[j].kind = "regen"
     /\ \A n \in {i, j} :
           /\ inst[n].pc = "done" /\ inst[n].entry.status = "success"
           /\ inst[n].result.altText # <<>>
           /\ inst[n].result.cost # calculateCost(NoUsage)

\* the positions of the log writes in a trace
LogWrites(t) == {k \in 1..Len(t) : t[k].k = "storage.set"}

\* the normalization and the API call of trace t had settled before position k:
\* generateAltText had returned or thrown, or both normalizations had failed
ResolvedBefore(t, k) ==
  \E m \in 1..(k - 1) :
     \/ t[m].k = "generateAltText"
     \/ t[m].k = "requestBase64FromContentScript" /\ ~t[m].v.ok

\* C13: an instance issues no log write before its normalization and API call
\* have settled, and at most one over its lifetime; the entry written is the
\* one of its outcome.  Every reachable state being a point where the service
\* worker may stop, an instance stopped before its outcome has left no entry.
C13_OneLogWriteAfterOutcome ==
  \A i \in Instances :
    LET t == inst[i].trace IN
    /\ Cardinality(LogWrites(t)) <= 1
    /\ \A k \in LogWrites(t) :
          /\ ResolvedBefore(t, k)
          /\ t[k].v.status = inst[i].entry.status
          /\ t[k].v.imageUrl = inst[i].src.url
    /\ inst[i].pc \in {"idle", "returned", "inject", "settings", "normalize",
                       "fallback", "caption", "logGet", "logSet"} => LogWrites(t) = {}
    /\ (inst[i].pc = "done" /\ inst[i].settings.apiKey # "") =>
          Cardinality(LogWrites(t)) = 1

\* one instance has ended with its one success entry written and another with
\* its one error entry written, while neither of the two was overwritten
C13_Witness ==
  \E i, j \in Instances :
     /\ inst[i].pc = "done" /\ inst[j].pc = "done"
     /\ \E k \in LogWrites(inst[i].trace) : inst[i].trace[k].v.status = "success"
     /\ \E k \in LogWrites(inst[j].trace) : inst[j].trace[k].v.status = "error"
     /\ Len(storage.generationLog) = 2

\* C14: addLogEntry reads and writes in two steps, and its write stores the
\* value it computed from what it read, whatever has been stored since: the
\* last write wins, and the entry a concurrent call stored in between is lost.
C14_LastWriteWins ==
  [][\A c \in Callers :
       (calls[c].pc = "set" /\ calls'[c].pc = "idle") =>
          /\ storage'.generationLog = calls[c].log
          /\ \A d \in Callers \ {c} :
                (calls[d].pc = "idle" /\ hist.appends = 2 /\ hist.clears = 0
                 /\ hist.overlapped) =>
                   Len(storage'.generationLog) = Len(hist.initial) + 1]_vars

\* two calls have overlapped and both have resolved, and the stored log holds
\* one new entry only: the one of the call that wrote last
C14_Witness ==
  /\ hist.appends = 2 /\ hist.clears = 0 /\ hist.overlapped /\ InFlight = {}
  /\ Len(storage.generationLog) = Len(hist.initial) + 1
  /\ SubSeq(storage.generationLog, 2, Len(storage.generationLog)) = hist.initial
  /\ storage.generationLog[1].imageUrl[2] = "new"

\* the next step of instance i's handler can be taken (the two normalization
\* steps wait for nothing but an outcome of the normalizer)
CanStep(i) ==
  CASE inst[i].pc = "inject"    -> ENABLED ContentScriptEnsured(i)
    [] inst[i].pc = "settings"  -> ENABLED SettingsRead(i)
    [] inst[i].pc = "normalize" -> PipelinePlatforms # {}
    [] inst[i].pc = "fallback"  -> FallbackReplies(inst[i].src) # {}
    [] inst[i].pc = "caption"   -> ENABLED CaptionDone(i)
    [] inst[i].pc = "logGet"    -> ENABLED LogRead(i)
    [] inst[i].pc = "logSet"    -> ENABLED LogWrite(i)
    [] inst[i].pc = "signal"    -> ENABLED Signal(i)
    [] OTHER -> FALSE

\* what the modal shows for a signal
ViewOf(msg) ==
  CASE msg.type = "EVERYALT_SHOW_LOADING" -> LoadingView
    [] msg.type = "EVERYALT_SHOW_RESULT" -> ResultView(msg.altText, msg.cost)
    [] msg.type = "EVERYALT_SHOW_ERROR" ->
         [kind |-> "error",
          text |-> IF msg.message # <<>> THEN msg.message ELSE <<"An error occurred.">>,
          link |-> msg.actionUrl, actions |-> {"Close"}]

\* the message instance i sends to the modal in this step, if any
SignalSent(i) ==
  IF Len(inst'[i].trace) > Len(inst[i].trace)
     /\ inst'[i].trace[Len(inst'[i].trace)].k = "tabs.sendMessage"
     /\ inst'[i].trace[Len(inst'[i].trace)].v.msg.type # "EVERYALT_FETCH_IMAGE"
  THEN {inst'[i].trace[Len(inst'[i].trace)].v.msg}
  ELSE {}

\* an instance under way can take its next step whatever the others do, and
\* an instance that has ended with a credential stored has issued its log write
C15_NeverBlocked ==
  \A i \in Instances :
    /\ inst[i].pc \notin {"idle", "returned", "done"} => CanStep(i)
    /\ (inst[i].pc = "done" /\ inst[i].settings.apiKey # "") =>
          /\ Cardinality(LogWrites(inst[i].trace)) = 1
          /\ Cardinality(Terminals(inst[i].trace)) = 1

\* a step of one instance leaves the others as they are; with the content
\* script listening, the modal shows the signal sent in this step, whoever
\* sent it, and it changes with a signal only
C15_LastSignalShown ==
  /\ \A i \in Instances :
        /\ inst'[i] # inst[i] => \A j \in Instances \ {i} : inst'[j] = inst[j]
        /\ \A msg \in SignalSent(i) :
              page'.listeners > 0 =>
                 /\ Shown(page') = {ViewOf(msg)}
                 /\ {o.view : o \in page'.overlays} = {ViewOf(msg)}
  /\ page'.overlays # page.overlays => \E i \in Instances : SignalSent(i) # {}

WrittenAt(i) == {inst[i].trace[k].v.timestamp : k \in LogWrites(inst[i].trace)}

SettingsKept ==
  /\ storage'.apiKey = storage.apiKey
  /\ storage'.apiKeyValidated = storage.apiKeyValidated
  /\ storage'.settings = storage.settings
  /\ storage'.metadata = storage.metadata

\* the entries of a log that stay when one more entry is added
Staying(log) == FirstN(log, MAX_LOG_ENTRIES - 1)

\* the entries of s that occur in keep, in the order of s
Among(s, keep) == SelectSeq(s, LAMBDA e : \E k \in 1..Len(keep) : keep[k] = e)

\* caller c's error write lands in this step
ErrorWriteLands(c) ==
  calls[c].pc = "set" /\ calls'[c].pc = "idle" /\ calls[c].entry.status = "error"

\* C16 as stated: an error write leaves the credential, its validated flag,
\* the settings and the metadata as they are, and every entry stored before
\* it is stored after it, in the same order, but for the oldest one when the
\* log held 10.
C16_ErrorWriteKeepsEveryEntry ==
  [][\A c \in Callers :
       ErrorWriteLands(c) =>
          /\ SettingsKept
          /\ Among(storage'.generationLog, Staying(storage.generationLog))
               = Staying(storage.generationLog)]_vars

\* C16 amended: an error write leaves the credential, its validated flag, the
\* settings and the metadata as they are and puts its entry first.  When the
\* stored log is still the one the call read, every entry stored before is
\* stored after, in the same order, behind the new one, but for the oldest one
\* when the log held 10.  When another write or a clear landed since the read,
\* the stored log becomes the log as it was read plus the new entry.
C16_ErrorWriteKeepsEntriesRead ==
  [][\A c \in Callers :
       ErrorWriteLands(c) =>
          /\ SettingsKept
          /\ storage'.generationLog[1].status = "error"
          /\ storage'.generationLog[1].imageUrl = calls[c].entry.imageUrl
          /\ Staying(storage.generationLog) = Tail(calls[c].log) =>
                Tail(storage'.generationLog) = Staying(storage.generationLog)
          /\ ~hist.overlapped =>
                /\ Staying(storage.generationLog) = Tail(calls[c].log)
                /\ Len(storage.generationLog) = MAX_LOG_ENTRIES =>
                      /\ Len(storage'.generationLog) = MAX_LOG_ENTRIES
                      /\ \A k \in 1..(MAX_LOG_ENTRIES - 1) :
                            storage'.generationLog[k + 1] = storage.generationLog[k]]_vars

\* error writes that did not overlap have filled a log that held two entries
\* before, and the last one has evicted the older of the two
C16_Witness ==
  /\ ~hist.overlapped /\ InFlight = {} /\ hist.clears = 0
  /\ Len(hist.initial) = 2 /\ Len(hist.started) = MAX_LOG_ENTRIES - 1
  /\ storage.generationLog = Reverse(hist.started) \o <<hist.initial[1]>>
  /\ storage.apiKey = "sk-test" /\ storage.apiKeyValidated

\* the same stored state, the last-updated stamp left aside
SameButStamp(a, b) ==
  [a EXCEPT !.metadata.lastUpdated = 0] = [b EXCEPT !.metadata.lastUpdated = 0]

\* C17 as stated: each of getSettings, saveSettings, addLogEntry, getLog and
\* clearLog, performed twice in succession with the same argument, leaves the
\* stored state (but for the last-updated stamp) that performing it once leaves.
C17_EveryOperationIdempotent ==
  calls.done = 2 => SameButStamp(storage, hist.once)

\* C17 amended: getSettings, saveSettings, getLog and clearLog are idempotent
\* on retry (the two reads store nothing and return the same value twice);
\* addLogEntry is not: performed again, it puts a second entry in front of the
\* first and cuts the log to 10 again, and leaves the other keys as they are.
C17_IdempotentButAppend ==
  calls.done = 2 =>
    IF calls.op # "addLogEntry"
    THEN /\ SameButStamp(storage, hist.once)
         /\ calls.op \in {"getSettings", "getLog"} =>
               /\ storage = hist.before
               /\ calls.results[1] = calls.results[2]
    ELSE /\ SameButStamp([storage EXCEPT !.generationLog = <<>>],
                         [hist.once EXCEPT !.generationLog = <<>>])
         /\ Tail(storage.generationLog) = Staying(hist.once.generationLog)
         /\ Len(storage.generationLog) = Min(Len(hist.once.generationLog) + 1, MAX_LOG_ENTRIES)
         /\ storage.generationLog[1].imageUrl = calls.arg.imageUrl
         /\ storage.generationLog[2].imageUrl = calls.arg.imageUrl
         /\ storage.generationLog # hist.once.generationLog

\* saveSettings has been performed twice with updates that changed the stored
\* settings, and the second call has only moved the stamp
C17_Witness ==
  /\ calls.op = "saveSettings" /\ calls.done = 2
  /\ hist.once.settings # hist.before.settings
  /\ storage.settings = hist.once.settings
  /\ storage.metadata.lastUpdated > hist.once.metadata.lastUpdated

\* C18: whatever the trigger, an instance that finds no credential stored ends
\* with a show-error signal that carries a message and the link to the
\* settings page, and does nothing else.
C18_NoCredentialSignalHasLink ==
  \A i \in Instances :
    (inst[i].pc = "done" /\ inst[i].settings.apiKey = "") =>
       LET t == inst[i].trace IN
       /\ IsSignal(t[Len(t)], "EVERYALT_SHOW_ERROR")
       /\ t[Len(t)].v.msg.message # <<>>
       /\ t[Len(t)].v.msg.actionUrl = OptionsUrl
       /\ \A k \in 1..Len(t) :
             t[k].k \notin {"imageUrlToBase64", "generateAltText", "storage.set"}

\* C19: when imageUrlToBase64 fails in the service worker at the decode or at
\* an encode step (the fetch, the type check and the size check having
\* passed), no fetch-image request is sent to the content script, and the
\* error logged and signalled is that failure.
C19_DecodeFailureNotDelegated ==
  \A i \in Instances : \A r \in PrivResults(i) :
    (~r.ok /\ Has(r.ev, "createImageBitmap")) =>
       /\ Positions(inst[i].trace, "EVERYALT_FETCH_IMAGE") = {}
       /\ PageResults(i) = {}
       /\ LoggedErrors(i) \subseteq {r.err}
       /\ SignalledErrors(i) \subseteq {r.err}

\* C20: for every answer with a status outside 200..299, whatever its body,
\* generateAltText throws the API's error.message when the body has one, and
\* "OpenAI API returned <status>" otherwise.
C20_NonSuccessStatusReported ==
  (calls.pc = "settled" /\ calls.settings.apiKey # "" /\ calls.resp.net = "ok"
   /\ calls.resp.status \notin 200..299) =>
     /\ ~calls.res.ok
     /\ calls.res.err = IF calls.resp.json /\ calls.resp.error # <<>>
                        THEN calls.resp.error ELSE ApiStatus(calls.resp.status)

(***************************************************************************)
(* The key validation, the cost and the worker's responses.                *)
(***************************************************************************)
Validated == calls.request.type = "EVERYALT_VALIDATE_KEY" /\ calls.pc # "received"

\* the models endpoint was asked and answered with a status in 200..299
AnsweredOk ==
  /\ calls.outgoing.url = OPENAI_MODELS_URL
  /\ calls.net.net = "ok" /\ calls.net.status \in 200..299

\* the case a validation falls in, by the input and the transport outcome
ValidationCase ==
  IF calls.request.apiKey.type # "string" \/ Trim(calls.request.apiKey.text) = <<>>
  THEN "empty"
  ELSE IF calls.net.net = "reject" THEN "network"
  ELSE IF calls.net.status \in 200..299 THEN "valid"
  ELSE IF calls.net.status = 401 THEN "unauthorized"
  ELSE "status"

\* the case a message speaks of
MessageCase(m) ==
  IF m = KeyEmpty THEN "empty"
  ELSE IF m = KeyValid THEN "valid"
  ELSE IF m = KeyInvalid THEN "unauthorized"
  ELSE IF IsPrefix(<<"Validation returned status ">>, m) THEN "status"
  ELSE IF IsPrefix(<<"Network error: ">>, m) THEN "network"
  ELSE "other"

\* C21: validateApiKey never rejects: whatever the input and whatever the
\* models endpoint does, the sender gets a {valid, message} pair; valid is
\* true exactly when the endpoint was asked (the input holds a key) and it
\* answered with a success status; and the message tells apart empty input,
\* HTTP 401, another non-success status and a network failure.
C21_ValidationAlwaysAnswers ==
  Validated =>
    /\ calls.pc = "responded"
    /\ calls.response.kind = "validation"
    /\ calls.response.value.valid = AnsweredOk
    /\ MessageCase(calls.response.value.message) = ValidationCase
    /\ (calls.outgoing = NoRequest) = (ValidationCase = "empty")

C21_Witness ==
  /\ Validated
  /\ calls.net.net = "reject"
  /\ calls.request.apiKey = StringValue(<<" ", "sk-test", " ">>)
  /\ calls.response.value = [valid |-> FALSE, message |-> KeyNetwork(<<"Failed to fetch">>)]
  /\ calls.outgoing.authorization = <<"Bearer ", "sk-test">>

\* the cost of a usage record in units of 1e-8 USD, as the claim puts it
ExactCost(usage) ==
  5 * Count(usage, "prompt_tokens") + 40 * Count(usage, "completion_tokens")

\* the double nearest to n * 1e-8
NearestUsd(n) == DblQuot(n, <<15625, 25>>, 8)

CountsKept ==
  calls.res.tokens = [prompt     |-> Count(calls.usage, "prompt_tokens"),
                      completion |-> Count(calls.usage, "completion_tokens"),
                      total      |-> Count(calls.usage, "total_tokens")]

\* C22 as stated: for prompt_tokens = p and completion_tokens = c (a missing
\* count being 0), totalUsd is the number (5p + 40c) * 1e-8, and the cents
\* string is that number times 100 written with 4 decimals (as toFixed
\* writes it, a half rounded up) followed by the cent sign.
C22_CostIsExact ==
  calls.pc = "returned" =>
    /\ CountsKept
    /\ calls.res.totalUsd = NearestUsd(ExactCost(calls.usage))
    /\ calls.res.costCents = Fixed4((ExactCost(calls.usage) + 50) \div 100) \o <<CentSign>>

\* C22, amended: totalUsd is the double computed as p/1e6 * 0.05 + c/1e6 * 0.40,
\* within 4 units in the last place of (5p + 40c) * 1e-8 but not always
\* the double nearest to it; the cents string has 4 decimals and the cent
\* sign and is a numeral nearest to the exact cost in cents, where an exact
\* half (5p + 40c = 50 mod 100) goes up or down with the rounding error.
C22_CostIsNearest ==
  calls.pc = "returned" =>
    LET u == ExactCost(calls.usage) IN
    /\ CountsKept
    /\ ~BigLess(<<4>>, DblDistance(calls.res.totalUsd, NearestUsd(u)))
    /\ \E n \in {u \div 100, u \div 100 + 1} :
         /\ 100 * n - u <= 50 /\ u - 100 * n <= 50
         /\ calls.res.costCents = Fixed4(n) \o <<CentSign>>

\* 2 prompt tokens and 1 completion token cost 0.00005 cents, shown as 0.0000
C22_Witness ==
  /\ calls.pc = "returned"
  /\ calls.usage = [prompt_tokens |-> 2, completion_tokens |-> 1, total_tokens |-> 3]
  /\ calls.res.costCents = <<"0", ".", "0", "0", "0", "0", CentSign>>
  /\ calls.res.totalUsd # Zero

(***************************************************************************)
(* Release of the bitmap, the canvas size.                                 *)
(***************************************************************************)
\* C23: in both normalizers, once createImageBitmap has produced a bitmap,
\* bitmap.close() is called on every path out of the function, the paths on
\* which the canvas, the drawing or the encoding fails included.
C23_BitmapAlwaysReleased ==
  (Settled /\ Has(norm.res.ev, "createImageBitmap") /\ norm.src.decodable) =>
     Has(norm.res.ev, "bitmap.close")

\* C28: for every decoded source of natural width >= 1 and height >= 1, the
\* canvas either normalizer creates has width >= 1 and height >= 1: the
\* scaled smaller side never rounds to 0.
C28_CanvasNeverEmpty ==
  (CanvasCreated /\ norm.src.width >= 1 /\ norm.src.height >= 1) =>
     norm.res.w >= 1 /\ norm.res.h >= 1

(***************************************************************************)
(* Where the stored key goes.                                              *)
(***************************************************************************)
\* a log entry's texts mention the key
EntryCarries(entry, key) ==
  \/ Has(entry.imageUrl, key)
  \/ entry.status = "error" /\ Has(entry.error, key)
  \/ entry.status = "success" /\ Has(entry.altText, key)

\* a response of the worker holds the key
ResponseCarries(r, key) ==
  CASE r.kind = "settings"   -> r.value.apiKey = key
    [] r.kind = "validation" -> Has(r.value.message, key)
    [] r.kind = "log"        -> \E k \in 1..Len(r.value) : EntryCarries(r.value[k], key)
    [] r.kind = "base64"     -> Has(r.value.error, key)
    [] OTHER                 -> FALSE

\* C24: the stored API key goes only into requests addressed to the OpenAI
\* endpoints: no response the service worker returns to a message sender
\* holds it, and a request that carries an Authorization header is addressed
\* to the chat completions or the models endpoint.
C24_KeyOnlyToOpenAI ==
  /\ (calls.pc = "responded" /\ storage.apiKey # "") =>
        ~ResponseCarries(calls.response, storage.apiKey)
  /\ calls.outgoing.authorization # <<>> =>
        calls.outgoing.url \in {OPENAI_CHAT_URL, OPENAI_MODELS_URL}

(***************************************************************************)
(* Termination.                                                            *)
(***************************************************************************)
\* C25: if every storage call, fetch, injection and tab message an instance
\* awaits eventually returns or fails, every triggered instance eventually
\* sends a show-result or a show-error signal.
C25_EveryInstanceTerminates ==
  \A i \in LiveInstances : Triggered(i) ~> (Terminals(inst[i].trace) # {})

(***************************************************************************)
(* Order of the log, clearing the log.                                     *)
(***************************************************************************)
\* C26: the clock being monotonic and no caller supplying a timestamp, the
\* stored log is in non-increasing order of timestamp (newest first) in
\* every reachable state, the states reached through overlapping
\* addLogEntry calls that lose entries included.
C26_LogNewestFirst ==
  \A k \in 1..(Len(storage.generationLog) - 1) :
    storage.generationLog[k].timestamp >= storage.generationLog[k + 1].timestamp

\* two overlapping calls have resolved, one entry was lost, the log is ordered
C26_Witness ==
  /\ hist.overlapped /\ hist.clears = 0 /\ InFlight = {}
  /\ hist.appends >= 2
  /\ Len(storage.generationLog) < Min(MAX_LOG_ENTRIES, Len(hist.initial) + hist.appends)
  /\ Len(storage.generationLog) >= 2
  /\ storage.generationLog[1].timestamp > storage.generationLog[2].timestamp

\* C27: once a clearLog call has resolved, the stored log never again holds
\* an entry that was stored before that clear, even when an addLogEntry call
\* overlaps the clear.
C27_ClearedEntriesStayGone ==
  \A k \in 1..Len(storage.generationLog) : storage.generationLog[k] \notin hist.cleared

(***************************************************************************)
(* The modal of the content script.                                        *)
(***************************************************************************)
\* C29: after any sequence of show-loading, show-result and show-error
\* signals and close actions (button, backdrop, Escape), at most one overlay
\* is attached to the page and there are as many Escape handlers registered
\* as overlays attached; however often the script is injected into the page,
\* exactly one message listener is registered.
C29_OneModalOneHandlerOneListener ==
  /\ Cardinality(page.overlays) <= 1
  /\ Cardinality(page.escHandlers) = Cardinality(page.overlays)
  /\ (\E k \in 1..Len(hist) : hist[k].k = "inject") => page.listeners = 1

\* injected twice, a loading modal replaced by a result modal
C29_Witness ==
  /\ Len(hist) = 4
  /\ hist[1].k = "inject" /\ hist[2].k = "inject"
  /\ hist[3].k = "signal" /\ hist[3].v = ShowLoading
  /\ hist[4].k = "signal" /\ hist[4].v.type = "EVERYALT_SHOW_RESULT"
  /\ page.listeners = 1
  /\ Cardinality(page.overlays) = 1 /\ Cardinality(page.escHandlers) = 1
  /\ \A v \in Shown(page) : v.kind = "result"
  /\ Shown(page) # {}

(***************************************************************************)
(* The options page.                                                       *)
(***************************************************************************)
\* C30: a save with a newly entered key whose validation does not come back
\* valid modifies no storage key: apiKey, apiKeyValidated, settings and
\* metadata are what they were when Save was clicked; and apiKeyValidated is
\* true in storage only together with a non-empty apiKey that passed
\* validation.
C30_FailedValidationSavesNothing ==
  /\ hist.refused => storage = hist.before
  /\ storage.apiKeyValidated =>
       storage.apiKey # "" /\ storage.apiKey \in hist.validated

\* a second save with a key that is refused, after a first save that stored
\* a key and settings
C30_Witness ==
  /\ calls.pc = "failed" /\ hist.saves = 2
  /\ calls.newKey = <<"sk-new">>
  /\ storage.apiKey = "sk-new" /\ storage.apiKeyValidated
  /\ storage.settings.maxTokens = MAX_TOKENS_LIMIT
  /\ calls.form.maxTokens = Num(256)

====
